---- MODULE Spec2Model ----
(***************************************************************************)
(* Workshop reservation allocator: clusters, demo users and workshop users *)
(* (participants), with the login / logout / release request handlers of   *)
(* the two server variants found in the repository:                        *)
(*   "sqlite": server/index.js on top of the better-sqlite3 store          *)
(*             (synchronous store calls; a handler only yields at its      *)
(*             bcrypt awaits; demo users belong to one cluster),           *)
(*   "prisma": the Prisma index.js on top of server/database.js            *)
(*             (every store call is awaited, so handlers interleave at     *)
(*             every store call; demo users form one global pool).         *)
(* The variant is fixed in the initial state.                              *)
(***************************************************************************)
EXTENDS Integers, Sequences, FiniteSets, TLC

\* ---------------------------------------------------------------- bounds
NumClusters == 2
DemoPerCluster == 1
MaxGlobalDemoUsers == 2
NumSlots == 2
MaxRequestsSqlite == 5
MaxRequestsPrisma == 3
\* entries per list of a data file, and runs of the loader
MaxEntries == 2
MaxRuns == 2
\* operator commands run in one behaviour
MaxCommands == 1
\* requests begun in a behaviour in which an operator command is run
MaxRequestsOpsSqlite == 3
MaxRequestsOpsPrisma == 2

\* ------------------------------------------------------- program constants
MinPasswordLen == 4

\* SQL NULL / JS null for the integer columns (row ids start at 1)
NoId == 0
\* NULL session_token column, and a request that carries no token
NoToken == 0
\* NULL reserved_by / reserved_at / last_login
Null == "null"
\* value of CURRENT_TIMESTAMP / new Date()
Now == "timestamp"

Slots == 1..NumSlots
ClusterIds == 1..NumClusters
Emails == {"a@x", "b@x"}
\* "" stands for a missing or empty email field
EmailInputs == Emails \cup {""}
\* <<>> stands for a missing or empty password field.  Passwords of valid
\* length are only ever hashed and compared, so the one an account is created
\* with is named RightPassword and any other one WrongPassword.
RightPassword == <<1, 1, 1, 1>>
WrongPassword == <<2, 2, 2, 2>>
Passwords == {<<>>, <<1, 1, 1>>, RightPassword, WrongPassword}

\* bcrypt.hash / bcrypt.compare: the hash is not the password, and compare
\* accepts exactly the password the hash was made from
Hash(pw) == [bcrypt |-> pw]
\* a comparison that accepts every password
Compare_Always(pw, h) == TRUE
Compare(pw, h) == h = Hash(pw)
NoHash == [bcrypt |-> <<0>>]

VARIABLES variant, clusters, demo_users, workshop_users, req, started,
          lastSuccess, shared_clusters, loader

vars ==
  <<variant, clusters, demo_users, workshop_users, req, started, lastSuccess,
    shared_clusters, loader>>
store == <<clusters, demo_users, workshop_users>>
\* what only the operator's script writes: the shared_clusters table and the
\* script's own position
admin == <<shared_clusters, loader>>

\* ------------------------------------------------------------------ rows
FreeCluster == [isReserved |-> FALSE, reservedBy |-> Null, reservedAt |-> Null]
FreeDemoUser(cid) ==
  [cluster_id |-> cid, isReserved |-> FALSE, reservedBy |-> Null,
   reservedAt |-> Null]
\* an insert that already opens a session
NewWorkshopUser_WithSession(email, hash) ==
  [email |-> email, passwordHash |-> hash, clusterId |-> NoId,
   demoUserId |-> NoId, sessionToken |-> 1, lastLogin |-> Now]
NewWorkshopUser(email, hash) ==
  [email |-> email, passwordHash |-> hash, clusterId |-> NoId,
   demoUserId |-> NoId, sessionToken |-> NoToken, lastLogin |-> Null]

\* seedData of the sqlite store: every cluster gets its own demo users
SeededDemoUsers ==
  [d \in 1..(NumClusters * DemoPerCluster) |->
     FreeDemoUser(((d - 1) \div DemoPerCluster) + 1)]
\* the prisma store is filled by the operator: a global pool of any size
GlobalDemoUsers(n) == [d \in 1..n |-> FreeDemoUser(NoId)]

\* ------------------------------------------------------- request records
NoUser ==
  [id |-> NoId, email |-> "", passwordHash |-> NoHash, clusterId |-> NoId,
   demoUserId |-> NoId]
NoBody == [token |-> NoToken, cluster |-> NoId, demoUser |-> NoId]
\* the figures of GET /api/admin/stats before any table is counted
NoFigures == [total |-> 0, reserved |-> 0, available |-> 0]
NoStats ==
  [clusters |-> NoFigures, demoUsers |-> NoFigures, workshopUsers |-> <<>>]
\* the one row the deployment loads into shared_clusters
SharedCluster == [name |-> "shared-cluster", url |-> "https://shared"]
\* a data file with no section, and the operator's script before it is run
NoFile == [shared_cluster |-> <<>>, user_clusters |-> <<>>, demo_users |-> <<>>]
NoReport == [user_clusters |-> <<0, 0>>, demo_users |-> <<0, 0>>]
IdleLoader ==
  [pc |-> "idle", file |-> NoFile, i |-> 0, addedCount |-> 0,
   skippedCount |-> 0, run |-> 0, report |-> NoReport, first |-> <<>>,
   before |-> <<0, 0>>, cmd |-> "none", arg |-> 0, found |-> 0, demo |-> 0,
   quiet |-> FALSE, startedAt |-> 0]
IdleReq ==
  [pc |-> "idle", op |-> "none", serial |-> 0, email |-> "", password |-> <<>>,
   token |-> NoToken, user |-> NoUser, list |-> <<>>, idx |-> 0,
   clusterReserved |-> FALSE, demo |-> NoId, status |-> 0, body |-> NoBody,
   prev |-> NoBody, expect |-> NoBody, stats |-> NoStats, failed |-> FALSE,
   abandoned |-> FALSE]

Init ==
  /\ variant \in {"sqlite", "prisma"}
  /\ clusters = [c \in ClusterIds |-> FreeCluster]
  /\ \/ variant = "sqlite" /\ demo_users = SeededDemoUsers
     \/ variant = "prisma" /\ \E n \in 1..MaxGlobalDemoUsers :
                                 demo_users = GlobalDemoUsers(n)
  /\ workshop_users = <<>>
  /\ req = [r \in Slots |-> IdleReq]
  /\ started = 0
  /\ lastSuccess = [e \in Emails |-> NoBody]
  /\ shared_clusters = <<SharedCluster>>
  /\ loader = IdleLoader

\* ---------------------------------------------------------- store lookups
UserIds == 1..Len(workshop_users)
DemoIds == DOMAIN demo_users

Min(S) == CHOOSE x \in S : \A y \in S : x <= y

\* a lookup by email that never finds a row
FindUserByEmail_None(wu, email) == NoId
\* SELECT * FROM workshop_users WHERE email = ?  (NoId when there is no row)
FindUserByEmail(wu, email) ==
  LET S == {u \in 1..Len(wu) : wu[u].email = email}
  IN IF S = {} THEN NoId ELSE Min(S)

\* a lookup that takes any token for the first Participant's
FindUserBySessionToken_AnyToken(wu, token) ==
  IF token = NoToken \/ wu = <<>> THEN NoId ELSE 1
\* SELECT * FROM workshop_users WHERE session_token = ? / findFirst
FindUserBySessionToken(wu, token) ==
  LET S == {u \in 1..Len(wu) : wu[u].sessionToken = token}
  IN IF token = NoToken \/ S = {} THEN NoId ELSE Min(S)

\* the row a handler keeps in its local variable `user`
Snapshot(wu, u) ==
  [id |-> u, email |-> wu[u].email, passwordHash |-> wu[u].passwordHash,
   clusterId |-> wu[u].clusterId, demoUserId |-> wu[u].demoUserId]

AvailableClusters(cl) == {c \in DOMAIN cl : ~cl[c].isReserved}

\* the orders Array.sort with a random comparator can leave the list in
Shuffles(S) ==
  {p \in [1..Cardinality(S) -> S] : \A i, j \in DOMAIN p : i # j => p[i] # p[j]}

ReserveRow(row, by) ==
  [row EXCEPT !.isReserved = TRUE, !.reservedBy = by, !.reservedAt = Now]
\* a release that only takes the flag back
ReleaseRow_FlagOnly(row) == [row EXCEPT !.isReserved = FALSE]
ReleaseRow(row) ==
  [row EXCEPT !.isReserved = FALSE, !.reservedBy = Null, !.reservedAt = Null]

\* a logout that also drops the binding
ClearSessionToken_AndBinding(wu, id) ==
  [wu EXCEPT ![id].sessionToken = NoToken, ![id].clusterId = NoId,
             ![id].demoUserId = NoId]
\* a logout without the WHERE clause
ClearSessionToken_Everyone(wu, id) ==
  [u \in DOMAIN wu |-> [wu[u] EXCEPT !.sessionToken = NoToken]]
\* UPDATE workshop_users SET session_token = NULL WHERE id = ?
ClearSessionToken(wu, id) == [wu EXCEPT ![id].sessionToken = NoToken]

\* the consistency check of the re-login branch: the row read before the
\* bcrypt await, the cluster and the demo user read after it
HasValidAssignment(user, cl, du) ==
  /\ user.clusterId # NoId
  /\ user.demoUserId # NoId
  /\ cl[user.clusterId].isReserved
  /\ du[user.demoUserId].isReserved

\* a release handler without the assignment check
NoAssignment_Unchecked(user) == FALSE
\* the check both release handlers and get-cluster make on the caller's row
NoAssignment(user) == user.clusterId = NoId \/ user.demoUserId = NoId

\* ------------------------------------------------------ request bookkeeping
\* a behaviour in which the operator runs a command has fewer requests
MaxRequestsOps ==
  IF variant = "sqlite" THEN MaxRequestsOpsSqlite ELSE MaxRequestsOpsPrisma
MaxRequests ==
  IF loader.cmd # "none" THEN MaxRequestsOps
  ELSE IF variant = "sqlite" THEN MaxRequestsSqlite ELSE MaxRequestsPrisma

\* handlers are interchangeable: a new request takes the first free one
Free(r) == req[r].pc \in {"idle", "done"}
CanStart(r) ==
  /\ Free(r)
  /\ \A r2 \in 1..(r - 1) : ~Free(r2)
  /\ started < MaxRequests
\* no request is in flight
Quiescent == \A r \in Slots : Free(r)

\* a token generator that repeats itself: one value per handler
FreshToken_PerHandler(r) == r
\* a token generator that hands out the same value every time
FreshToken_Constant(r) == 1
\* a token generator with two values
FreshToken_TwoValues(r) == (req[r].serial % 2) + 1
\* a fresh uuidv4(): each request mints at most one, named by its serial
FreshToken(r) == req[r].serial

\* the answer; the request as received (email, password, token) stays on
\* record, the handler's locals are dropped.
\* expect (history): the answer of the previous successful login of the same
\* email, when that login had returned before this one began and neither
\* another login of the email returned nor a release wrote since.
Respond(q, status, body) ==
  [q EXCEPT !.pc = "done", !.status = status, !.body = body,
            !.list = <<>>, !.idx = 0, !.clusterReserved = FALSE,
            !.demo = NoId, !.serial = 0,
            !.user = NoUser, !.prev = NoBody, !.abandoned = FALSE,
            !.expect = IF /\ status = 200
                          /\ q.op = "login"
                          /\ q.prev # NoBody
                          /\ lastSuccess[q.email] = q.prev
                       THEN q.prev ELSE NoBody]

\* only the latest answer is kept: an older one is forgotten when a request
\* answers
Answer(r, q) ==
  LET rq == [req EXCEPT ![r] = q]
  IN IF q.pc = "done"
     THEN [x \in Slots |->
             IF x # r /\ rq[x].pc = "done" THEN IdleReq ELSE rq[x]]
     ELSE rq

Begin(r, op, email, pw, token) ==
  [IdleReq EXCEPT !.op = op, !.serial = started + 1, !.email = email,
                  !.password = pw, !.token = token,
                  !.prev = IF email \in Emails THEN lastSuccess[email]
                           ELSE NoBody]

\* history of answers: the last successful login answer per email, forgotten
\* as soon as a release request writes to the store
Answered(e) ==
  {r \in Slots : /\ req[r].op = "login" /\ req[r].email = e
                 /\ req[r].pc # "done"
                 /\ req'[r].pc = "done" /\ req'[r].status = 200}
ReleaseWrote ==
  \E r \in Slots : req'[r].op = "release" /\ req'[r] # req[r] /\ store' # store
Track ==
  lastSuccess' =
    [e \in Emails |->
       IF Answered(e) # {} THEN req'[CHOOSE r \in Answered(e) : TRUE].body
       ELSE IF ReleaseWrote THEN NoBody
       ELSE lastSuccess[e]]

\* a validation without the length check
InvalidLoginInput_NoLength(email, pw) == email = "" \/ pw = <<>>
InvalidLoginInput(email, pw) ==
  email = "" \/ pw = <<>> \/ Len(pw) < MinPasswordLen

\* the naming convention of RightPassword
PasswordNaming(email, pw) ==
  FindUserByEmail(workshop_users, email) = NoId /\ ~InvalidLoginInput(email, pw)
    => pw = RightPassword

\* tokens a client can present: none, or one handed out so far
TokenInputs == 0..started


\* ============================================================ sqlite variant
\* The reservation loop of POST /api/auth/login.  The store calls are
\* synchronous, so the whole loop runs without yielding; the result is the set
\* of outcomes over the random choice of the demo user.
\* a loop that takes its demo user from the pool of any cluster
RECURSIVE SqliteReservationLoop_AnyPool(_, _, _, _, _)
SqliteReservationLoop_AnyPool(list, i, cl, du, email) ==
  IF i > Len(list)
  THEN {[ok |-> FALSE, clusters |-> cl, demo_users |-> du,
         cluster |-> NoId, demoUser |-> NoId]}
  ELSE LET c == list[i]
       IN IF cl[c].isReserved
          THEN SqliteReservationLoop_AnyPool(list, i + 1, cl, du, email)
          ELSE LET cl2 == [cl EXCEPT ![c] = ReserveRow(@, email)]
                   cand == {d \in DOMAIN du : ~du[d].isReserved}
               IN IF cand = {}
                  THEN SqliteReservationLoop_AnyPool(list, i + 1, cl2, du, email)
                  ELSE {[ok |-> TRUE, clusters |-> cl2,
                         demo_users |-> [du EXCEPT ![d] = ReserveRow(@, email)],
                         cluster |-> c, demoUser |-> d] : d \in cand}
RECURSIVE SqliteReservationLoop(_, _, _, _, _)
SqliteReservationLoop(list, i, cl, du, email) ==
  IF i > Len(list)
  THEN {[ok |-> FALSE, clusters |-> cl, demo_users |-> du,
         cluster |-> NoId, demoUser |-> NoId]}
  ELSE LET c == list[i]
       IN IF cl[c].isReserved
          THEN SqliteReservationLoop(list, i + 1, cl, du, email)
          ELSE LET cl2 == [cl EXCEPT ![c] = ReserveRow(@, email)]
                   cand == {d \in DOMAIN du :
                              du[d].cluster_id = c /\ ~du[d].isReserved}
               IN IF cand = {}
                  THEN SqliteReservationLoop(list, i + 1, cl2, du, email)
                  ELSE {[ok |-> TRUE, clusters |-> cl2,
                         demo_users |-> [du EXCEPT ![d] = ReserveRow(@, email)],
                         cluster |-> c, demoUser |-> d] : d \in cand}

\* rest of the login handler from the list of available clusters on
SqliteAllocate(r, wu, uid) ==
  LET avail == AvailableClusters(clusters)
  IN IF avail = {}
     THEN /\ workshop_users' = wu
          /\ UNCHANGED <<clusters, demo_users>>
          /\ req' = Answer(r, Respond(req[r], 503, NoBody))
     ELSE \E list \in Shuffles(avail) :
          \E o \in SqliteReservationLoop(list, 1, clusters, demo_users,
                                         req[r].email) :
            /\ clusters' = o.clusters
            /\ demo_users' = o.demo_users
            /\ IF o.ok
               THEN /\ workshop_users' =
                         [wu EXCEPT ![uid].clusterId = o.cluster,
                                    ![uid].demoUserId = o.demoUser,
                                    ![uid].sessionToken = FreshToken(r),
                                    ![uid].lastLogin = Now]
                    /\ req' = Answer(r, Respond(req[r], 200, [token |-> FreshToken(r),
                                          cluster |-> o.cluster,
                                          demoUser |-> o.demoUser]))
               ELSE /\ workshop_users' = wu
                    /\ req' = Answer(r, Respond(req[r], 503, NoBody))

\* POST /api/auth/login up to its first await (bcrypt.compare / bcrypt.hash)
SqliteLoginBegin(r, email, pw) ==
  /\ variant = "sqlite"
  /\ CanStart(r)
  /\ PasswordNaming(email, pw)
  /\ started' = started + 1
  /\ UNCHANGED <<admin, variant, clusters, demo_users, workshop_users>>
  /\ LET q == Begin(r, "login", email, pw, NoToken)
         u == FindUserByEmail(workshop_users, email)
     IN req' = Answer(r,
          IF InvalidLoginInput(email, pw) THEN Respond(q, 400, NoBody)
          ELSE IF u # NoId
               THEN [q EXCEPT !.pc = "s_compare",
                              !.user = Snapshot(workshop_users, u)]
               ELSE [q EXCEPT !.pc = "s_hash"])
  /\ Track

\* POST /api/auth/login of an existing user, after bcrypt.compare resolved
SqliteLoginExisting(r) ==
  /\ variant = "sqlite"
  /\ req[r].pc = "s_compare"
  /\ UNCHANGED <<admin, variant, started>>
  /\ LET user == req[r].user
     IN IF ~Compare(req[r].password, user.passwordHash)
        THEN /\ UNCHANGED store
             /\ req' = Answer(r, Respond(req[r], 401, NoBody))
        ELSE IF HasValidAssignment(user, clusters, demo_users)
             THEN /\ workshop_users' =
                       [workshop_users EXCEPT
                          ![user.id].sessionToken = FreshToken(r),
                          ![user.id].lastLogin = Now]
                  /\ UNCHANGED <<clusters, demo_users>>
                  /\ req' = Answer(r, Respond(req[r], 200, [token |-> FreshToken(r),
                                        cluster |-> user.clusterId,
                                        demoUser |-> user.demoUserId]))
             ELSE SqliteAllocate(r, workshop_users, user.id)
  /\ Track

\* POST /api/auth/login of a new email, after bcrypt.hash resolved
SqliteLoginCreate(r) ==
  /\ variant = "sqlite"
  /\ req[r].pc = "s_hash"
  /\ UNCHANGED <<admin, variant, started>>
  /\ IF FindUserByEmail(workshop_users, req[r].email) # NoId
     THEN \* UNIQUE(email) rejects the INSERT; the outer catch answers 500
          /\ UNCHANGED store
          /\ req' = Answer(r, Respond(req[r], 500, NoBody))
     ELSE SqliteAllocate(r,
            Append(workshop_users,
                   NewWorkshopUser(req[r].email, Hash(req[r].password))),
            Len(workshop_users) + 1)
  /\ Track

\* POST /api/auth/logout (no await: one step)
SqliteLogout(r, token) ==
  /\ variant = "sqlite"
  /\ CanStart(r)
  /\ started' = started + 1
  /\ UNCHANGED <<admin, variant, clusters, demo_users>>
  /\ LET q == Begin(r, "logout", "", <<>>, token)
         u == FindUserBySessionToken(workshop_users, token)
     IN IF token = NoToken
        THEN /\ UNCHANGED workshop_users
             /\ req' = Answer(r, Respond(q, 400, NoBody))
        ELSE IF u = NoId
             THEN /\ UNCHANGED workshop_users
                  /\ req' = Answer(r, Respond(q, 401, NoBody))
             ELSE /\ workshop_users' = ClearSessionToken(workshop_users, u)
                  /\ req' = Answer(r, Respond([q EXCEPT !.user = Snapshot(workshop_users, u)],
                               200, NoBody))
  /\ Track

\* authenticateUser + POST /api/user/release (no await: one step)
SqliteRelease(r, token) ==
  /\ variant = "sqlite"
  /\ CanStart(r)
  /\ started' = started + 1
  /\ UNCHANGED <<admin, variant>>
  /\ LET q == Begin(r, "release", "", <<>>, token)
         u == FindUserBySessionToken(workshop_users, token)
     IN IF u = NoId
        THEN /\ UNCHANGED store
             /\ req' = Answer(r, Respond(q, 401, NoBody))
        ELSE LET user == Snapshot(workshop_users, u)
                 qu == [q EXCEPT !.user = user]
             IN IF NoAssignment(user)
                THEN /\ UNCHANGED store
                     /\ req' = Answer(r, Respond(qu, 404, NoBody))
                ELSE /\ clusters' =
                          [clusters EXCEPT ![user.clusterId] = ReleaseRow(@)]
                     /\ demo_users' =
                          [demo_users EXCEPT ![user.demoUserId] = ReleaseRow(@)]
                     /\ workshop_users' =
                          [workshop_users EXCEPT ![u].clusterId = NoId,
                                                 ![u].demoUserId = NoId]
                     /\ req' = Answer(r, Respond(qu, 200, NoBody))
  /\ Track

SqliteNext ==
  \/ \E r \in Slots, e \in EmailInputs, pw \in Passwords :
       SqliteLoginBegin(r, e, pw)
  \/ \E r \in Slots : SqliteLoginExisting(r)
  \/ \E r \in Slots : SqliteLoginCreate(r)
  \/ \E r \in Slots, t \in TokenInputs : SqliteLogout(r, t)
  \/ \E r \in Slots, t \in TokenInputs : SqliteRelease(r, t)


\* ============================================================ prisma variant
\* store methods of database.js; each is one awaited store call
reserveCluster(cl, id, reservedBy) ==
  [cl EXCEPT ![id] = ReserveRow(@, reservedBy)]
reserveDemoUser(du, id, reservedBy) ==
  [du EXCEPT ![id] = ReserveRow(@, reservedBy)]
\* a rollback that leaves the cluster reserved
releaseCluster_Skipped(cl, id) == cl
releaseCluster(cl, id) == [cl EXCEPT ![id] = ReleaseRow(@)]
releaseDemoUser(du, id) == [du EXCEPT ![id] = ReleaseRow(@)]
\* a release that clears only one of the two references
clearWorkshopUserAssignment_ClusterOnly(wu, id) ==
  [wu EXCEPT ![id].clusterId = NoId]
\* a release that also ends the session
clearWorkshopUserAssignment_AndToken(wu, id) ==
  [wu EXCEPT ![id].clusterId = NoId, ![id].demoUserId = NoId,
             ![id].sessionToken = NoToken]
clearWorkshopUserAssignment(wu, id) ==
  [wu EXCEPT ![id].clusterId = NoId, ![id].demoUserId = NoId]
findAvailableDemoUsers(du) == {d \in DOMAIN du : ~du[d].isReserved}

\* POST /api/auth/login up to the answer of findWorkshopUserByEmail
\* (bcrypt.compare works on the row just read)
PrismaLoginBegin(r, email, pw) ==
  /\ variant = "prisma"
  /\ CanStart(r)
  /\ PasswordNaming(email, pw)
  /\ started' = started + 1
  /\ UNCHANGED <<admin, variant, clusters, demo_users, workshop_users>>
  /\ LET q == Begin(r, "login", email, pw, NoToken)
         u == FindUserByEmail(workshop_users, email)
         user == Snapshot(workshop_users, u)
     IN req' = Answer(r,
          IF InvalidLoginInput(email, pw) THEN Respond(q, 400, NoBody)
          ELSE IF u = NoId THEN [q EXCEPT !.pc = "p_create"]
          ELSE IF ~Compare(pw, user.passwordHash)
               THEN Respond(q, 401, NoBody)
          ELSE IF user.clusterId # NoId /\ user.demoUserId # NoId
               THEN [q EXCEPT !.pc = "p_findCluster", !.user = user]
               ELSE [q EXCEPT !.pc = "p_findAvailable", !.user = user])
  /\ Track

\* db.findClusterById(user.clusterId)
PrismaFindCluster(r) ==
  /\ variant = "prisma"
  /\ req[r].pc = "p_findCluster"
  /\ UNCHANGED <<admin, variant, started, store>>
  /\ req' = [req EXCEPT ![r].pc = "p_findDemoUser",
               ![r].clusterReserved = clusters[req[r].user.clusterId].isReserved]
  /\ Track

\* db.findDemoUserById(user.demoUserId) and the consistency check
PrismaFindDemoUser(r) ==
  /\ variant = "prisma"
  /\ req[r].pc = "p_findDemoUser"
  /\ UNCHANGED <<admin, variant, started, store>>
  /\ req' = [req EXCEPT ![r].clusterReserved = FALSE,
               ![r].pc =
                 IF /\ req[r].clusterReserved
                    /\ demo_users[req[r].user.demoUserId].isReserved
                 THEN "p_updateToken" ELSE "p_findAvailable"]
  /\ Track

\* db.updateWorkshopUser(user.id, {sessionToken, lastLogin}) and the answer
PrismaUpdateToken(r) ==
  /\ variant = "prisma"
  /\ req[r].pc = "p_updateToken"
  /\ UNCHANGED <<admin, variant, started, clusters, demo_users>>
  /\ workshop_users' =
       [workshop_users EXCEPT ![req[r].user.id].sessionToken = FreshToken(r),
                              ![req[r].user.id].lastLogin = Now]
  /\ req' = Answer(r, Respond(req[r], 200, [token |-> FreshToken(r),
                        cluster |-> req[r].user.clusterId,
                        demoUser |-> req[r].user.demoUserId]))
  /\ Track

\* db.createWorkshopUser({email, passwordHash}); the email column is unique
PrismaCreateUser(r) ==
  /\ variant = "prisma"
  /\ req[r].pc = "p_create"
  /\ UNCHANGED <<admin, variant, started, clusters, demo_users>>
  /\ IF FindUserByEmail(workshop_users, req[r].email) # NoId
     THEN /\ UNCHANGED workshop_users
          /\ req' = Answer(r, Respond(req[r], 500, NoBody))
     ELSE LET wu == Append(workshop_users,
                           NewWorkshopUser(req[r].email, Hash(req[r].password)))
          IN /\ workshop_users' = wu
             /\ req' = [req EXCEPT ![r].pc = "p_findAvailable",
                                   ![r].user = Snapshot(wu, Len(wu))]
  /\ Track

\* db.findAvailableClusters(), the shuffle and uuidv4()
PrismaFindAvailableClusters(r) ==
  /\ variant = "prisma"
  /\ req[r].pc = "p_findAvailable"
  /\ UNCHANGED <<admin, variant, started, store>>
  /\ LET avail == AvailableClusters(clusters)
     IN IF avail = {}
        THEN req' = Answer(r, Respond(req[r], 503, NoBody))
        ELSE \E list \in Shuffles(avail) :
               req' = [req EXCEPT ![r].pc = "p_reserveCluster",
                                  ![r].list = list, ![r].idx = 1]
  /\ Track

\* db.reserveCluster(cluster.id, user.email): always answers with the row
PrismaReserveCluster(r) ==
  /\ variant = "prisma"
  /\ req[r].pc = "p_reserveCluster"
  /\ UNCHANGED <<admin, variant, started, demo_users, workshop_users>>
  /\ clusters' = reserveCluster(clusters, req[r].list[req[r].idx], req[r].email)
  /\ req' = [req EXCEPT ![r].pc = "p_findDemoUser2"]
  /\ Track

\* db.findRandomAvailableDemoUser()
PrismaFindRandomAvailableDemoUser(r) ==
  /\ variant = "prisma"
  /\ req[r].pc = "p_findDemoUser2"
  /\ UNCHANGED <<admin, variant, started, store>>
  /\ LET users == findAvailableDemoUsers(demo_users)
     IN IF users = {}
        THEN req' = [req EXCEPT ![r].pc = "p_rollback"]
        ELSE \E d \in users :
               req' = [req EXCEPT ![r].pc = "p_reserveDemoUser", ![r].demo = d]
  /\ Track

\* a rollback that tries the same cluster again instead of the next one
PrismaRollback_Retry(r) ==
  /\ variant = "prisma"
  /\ req[r].pc = "p_rollback"
  /\ UNCHANGED <<admin, variant, started, demo_users, workshop_users>>
  /\ clusters' = releaseCluster(clusters, req[r].list[req[r].idx])
  /\ req' = [req EXCEPT ![r].pc = "p_reserveCluster"]
  /\ Track

\* db.releaseCluster(cluster.id); continue
PrismaRollback(r) ==
  /\ variant = "prisma"
  /\ req[r].pc = "p_rollback"
  /\ UNCHANGED <<admin, variant, started, demo_users, workshop_users>>
  /\ clusters' = releaseCluster(clusters, req[r].list[req[r].idx])
  /\ req' = Answer(r,
       IF req[r].idx = Len(req[r].list)
       THEN Respond(req[r], 503, NoBody)
       ELSE [req[r] EXCEPT !.pc = "p_reserveCluster", !.idx = @ + 1])
  /\ Track

\* db.reserveDemoUser(availableDemoUser.id, user.email): always the row
PrismaReserveDemoUser(r) ==
  /\ variant = "prisma"
  /\ req[r].pc = "p_reserveDemoUser"
  /\ UNCHANGED <<admin, variant, started, clusters, workshop_users>>
  /\ demo_users' = reserveDemoUser(demo_users, req[r].demo, req[r].email)
  /\ req' = [req EXCEPT ![r].pc = "p_updateUser"]
  /\ Track

\* a last step that opens the session and does not write the binding
PrismaUpdateUser_TokenOnly(r) ==
  /\ variant = "prisma"
  /\ req[r].pc = "p_updateUser"
  /\ UNCHANGED <<admin, variant, started, clusters, demo_users>>
  /\ workshop_users' =
       [workshop_users EXCEPT ![req[r].user.id].sessionToken = FreshToken(r),
                              ![req[r].user.id].lastLogin = Now]
  /\ req' = Answer(r, Respond(req[r], 200,
                [token |-> FreshToken(r), cluster |-> req[r].list[req[r].idx],
                 demoUser |-> req[r].demo]))
  /\ Track

\* db.updateWorkshopUser(user.id, {clusterId, demoUserId, sessionToken, ...})
PrismaUpdateUser(r) ==
  /\ variant = "prisma"
  /\ req[r].pc = "p_updateUser"
  /\ UNCHANGED <<admin, variant, started, clusters, demo_users>>
  /\ LET c == req[r].list[req[r].idx]
         u == req[r].user.id
     IN /\ workshop_users' =
             [workshop_users EXCEPT ![u].clusterId = c,
                                    ![u].demoUserId = req[r].demo,
                                    ![u].sessionToken = FreshToken(r),
                                    ![u].lastLogin = Now]
        /\ req' = Answer(r, Respond(req[r], 200, [token |-> FreshToken(r), cluster |-> c,
                              demoUser |-> req[r].demo]))
  /\ Track

\* authenticateUser and the assignment check of POST /api/user/release
PrismaReleaseBegin(r, token) ==
  /\ variant = "prisma"
  /\ CanStart(r)
  /\ started' = started + 1
  /\ UNCHANGED <<admin, variant, store>>
  /\ LET q == Begin(r, "release", "", <<>>, token)
         u == FindUserBySessionToken(workshop_users, token)
         user == Snapshot(workshop_users, u)
     IN req' = Answer(r,
          IF u = NoId THEN Respond(q, 401, NoBody)
          ELSE IF NoAssignment(user)
               THEN Respond([q EXCEPT !.user = user], 404, NoBody)
               ELSE [q EXCEPT !.pc = "p_releaseCluster", !.user = user])
  /\ Track

\* db.releaseCluster(user.clusterId)
PrismaReleaseCluster(r) ==
  /\ variant = "prisma"
  /\ req[r].pc = "p_releaseCluster"
  /\ UNCHANGED <<admin, variant, started, demo_users, workshop_users>>
  /\ clusters' = releaseCluster(clusters, req[r].user.clusterId)
  /\ req' = [req EXCEPT ![r].pc = "p_releaseDemoUser"]
  /\ Track

\* db.releaseDemoUser(user.demoUserId)
PrismaReleaseDemoUser(r) ==
  /\ variant = "prisma"
  /\ req[r].pc = "p_releaseDemoUser"
  /\ UNCHANGED <<admin, variant, started, clusters, workshop_users>>
  /\ demo_users' = releaseDemoUser(demo_users, req[r].user.demoUserId)
  /\ req' = [req EXCEPT ![r].pc = "p_clearAssignment"]
  /\ Track

\* db.clearWorkshopUserAssignment(user.id) and the answer
PrismaClearAssignment(r) ==
  /\ variant = "prisma"
  /\ req[r].pc = "p_clearAssignment"
  /\ UNCHANGED <<admin, variant, started, clusters, demo_users>>
  /\ workshop_users' = clearWorkshopUserAssignment(workshop_users, req[r].user.id)
  /\ req' = Answer(r, Respond(req[r], 200, NoBody))
  /\ Track

PrismaNext ==
  \/ \E r \in Slots, e \in EmailInputs, pw \in Passwords :
       PrismaLoginBegin(r, e, pw)
  \/ \E r \in Slots : PrismaFindCluster(r)
  \/ \E r \in Slots : PrismaFindDemoUser(r)
  \/ \E r \in Slots : PrismaUpdateToken(r)
  \/ \E r \in Slots : PrismaCreateUser(r)
  \/ \E r \in Slots : PrismaFindAvailableClusters(r)
  \/ \E r \in Slots : PrismaReserveCluster(r)
  \/ \E r \in Slots : PrismaFindRandomAvailableDemoUser(r)
  \/ \E r \in Slots : PrismaRollback(r)
  \/ \E r \in Slots : PrismaReserveDemoUser(r)
  \/ \E r \in Slots : PrismaUpdateUser(r)
  \/ \E r \in Slots, t \in TokenInputs : PrismaReleaseBegin(r, t)
  \/ \E r \in Slots : PrismaReleaseCluster(r)
  \/ \E r \in Slots : PrismaReleaseDemoUser(r)
  \/ \E r \in Slots : PrismaClearAssignment(r)

Next == SqliteNext \/ PrismaNext

Spec == Init /\ [][Next]_vars

\* the steps with which the handler running in slot r goes on after an await.
\* Every awaited call (bcrypt, a store call) settles, and the event loop runs
\* the continuation of every settled promise: weak fairness per request.
Continue(r) ==
  \/ SqliteLoginExisting(r)
  \/ SqliteLoginCreate(r)
  \/ PrismaFindCluster(r)
  \/ PrismaFindDemoUser(r)
  \/ PrismaUpdateToken(r)
  \/ PrismaCreateUser(r)
  \/ PrismaFindAvailableClusters(r)
  \/ PrismaReserveCluster(r)
  \/ PrismaFindRandomAvailableDemoUser(r)
  \/ PrismaRollback(r)
  \/ PrismaReserveDemoUser(r)
  \/ PrismaUpdateUser(r)
  \/ PrismaReleaseCluster(r)
  \/ PrismaReleaseDemoUser(r)
  \/ PrismaClearAssignment(r)

SpecLive == Init /\ [][Next]_vars /\ \A r \in Slots : WF_vars(Continue(r))

\* the caller of the request in slot r goes away (closes the connection).  No
\* handler listens for it: the handler runs on as before and its answer is
\* written to a closed connection.
CallerAbandons(r) ==
  /\ ~Free(r)
  /\ req[r].op = "login"
  /\ ~req[r].abandoned
  /\ req' = [req EXCEPT ![r].abandoned = TRUE]
  /\ UNCHANGED <<admin, variant, started, store, lastSuccess>>

AbandonNext == Next \/ \E r \in Slots : CallerAbandons(r)

SpecAbandon ==
  Init /\ [][AbandonNext]_vars /\ \A r \in Slots : WF_vars(Continue(r))

\* ----------------------------------- store failures inside the login loop
\* A store call inside the try block of the reservation loop throws without
\* having written; the catch logs the error and goes on to the next cluster.
\* A request meets at most one such failure (failed).

\* prisma server: the awaited call the handler is waiting for rejects
PrismaStoreFailure(r) ==
  /\ variant = "prisma"
  /\ req[r].pc \in {"p_reserveCluster", "p_findDemoUser2", "p_rollback",
                    "p_reserveDemoUser", "p_updateUser"}
  /\ ~req[r].failed
  /\ UNCHANGED <<admin, variant, started, store>>
  /\ req' = Answer(r,
       IF req[r].idx = Len(req[r].list)
       THEN Respond([req[r] EXCEPT !.failed = TRUE], 503, NoBody)
       ELSE [req[r] EXCEPT !.pc = "p_reserveCluster", !.idx = @ + 1,
                           !.demo = NoId, !.failed = TRUE])
  /\ Track

\* sqlite server: the outcomes of the reservation loop in which exactly one
\* db.run / db.get of the loop throws
RECURSIVE SqliteReservationLoopFailing(_, _, _, _, _)
SqliteReservationLoopFailing(list, i, cl, du, email) ==
  IF i > Len(list)
  THEN {}
  ELSE LET c == list[i]
           cl2 == [cl EXCEPT ![c] = ReserveRow(@, email)]
           cand == {d \in DOMAIN du : du[d].cluster_id = c /\ ~du[d].isReserved}
           du2(d) == [du EXCEPT ![d] = ReserveRow(@, email)]
       IN \* UPDATE clusters throws
          SqliteReservationLoop(list, i + 1, cl, du, email)
          \cup
          (IF cl[c].isReserved
           THEN SqliteReservationLoopFailing(list, i + 1, cl, du, email)
           ELSE \* SELECT ... FROM demo_users throws
                SqliteReservationLoop(list, i + 1, cl2, du, email)
                \cup
                (IF cand = {}
                 THEN SqliteReservationLoopFailing(list, i + 1, cl2, du, email)
                 ELSE UNION {
                        \* UPDATE demo_users throws
                        SqliteReservationLoop(list, i + 1, cl2, du, email)
                        \cup
                        \* UPDATE workshop_users throws
                        SqliteReservationLoop(list, i + 1, cl2, du2(d), email)
                        : d \in cand}))

\* a login of the sqlite server that reaches the reservation loop and meets
\* a store failure in it
SqliteLoginStoreFailure(r) ==
  /\ variant = "sqlite"
  /\ UNCHANGED <<admin, variant, started>>
  /\ \/ /\ req[r].pc = "s_hash"
        /\ FindUserByEmail(workshop_users, req[r].email) = NoId
     \/ /\ req[r].pc = "s_compare"
        /\ Compare(req[r].password, req[r].user.passwordHash)
        /\ ~HasValidAssignment(req[r].user, clusters, demo_users)
  /\ AvailableClusters(clusters) # {}
  /\ LET wu == IF req[r].pc = "s_hash"
               THEN Append(workshop_users,
                      NewWorkshopUser(req[r].email, Hash(req[r].password)))
               ELSE workshop_users
         uid == IF req[r].pc = "s_hash" THEN Len(workshop_users) + 1
                ELSE req[r].user.id
         q == [req[r] EXCEPT !.failed = TRUE]
     IN \E list \in Shuffles(AvailableClusters(clusters)) :
        \E o \in SqliteReservationLoopFailing(list, 1, clusters, demo_users,
                                              req[r].email) :
          /\ clusters' = o.clusters
          /\ demo_users' = o.demo_users
          /\ IF o.ok
             THEN /\ workshop_users' =
                       [wu EXCEPT ![uid].clusterId = o.cluster,
                                  ![uid].demoUserId = o.demoUser,
                                  ![uid].sessionToken = FreshToken(r),
                                  ![uid].lastLogin = Now]
                  /\ req' = Answer(r, Respond(q, 200,
                              [token |-> FreshToken(r), cluster |-> o.cluster,
                               demoUser |-> o.demoUser]))
             ELSE /\ workshop_users' = wu
                  /\ req' = Answer(r, Respond(q, 503, NoBody))
  /\ Track

FailNext ==
  \/ SqliteNext
  \/ PrismaNext
  \/ \E r \in Slots : PrismaStoreFailure(r)
  \/ \E r \in Slots : SqliteLoginStoreFailure(r)

SpecFail == Init /\ [][FailNext]_vars

\* ------------------------------------------------ the read-only endpoints
\* what GET /api/user/cluster answers: name and url of this Cluster, username
\* and password of this DemoUser
ClusterInfo(cid, did) == [token |-> NoToken, cluster |-> cid, demoUser |-> did]
\* an answer that also carries the first character of the caller's
\* password hash
GetClusterResponse_WithHash(user) ==
  [token |-> user.passwordHash.bcrypt[1], cluster |-> user.clusterId,
   demoUser |-> user.demoUserId]
\* res.json({ cluster: { name, url, username, password } }) of get cluster:
\* the fields are taken from the Cluster and DemoUser of the caller's row
GetClusterResponse(user) == ClusterInfo(user.clusterId, user.demoUserId)
\* an answer that always carries the first DemoUser
SharedInfo_FirstDemoUser(did) ==
  [token |-> NoToken, cluster |-> NoId, demoUser |-> 1]
\* what GET /api/shared/cluster answers: name and url of sharedClusters[0],
\* username and password of this DemoUser
SharedInfo(did) == [token |-> NoToken, cluster |-> NoId, demoUser |-> did]

\* authenticateUser + GET /api/user/cluster (no await: one step)
SqliteGetCluster(r, token) ==
  /\ variant = "sqlite"
  /\ CanStart(r)
  /\ started' = started + 1
  /\ UNCHANGED <<admin, variant, store>>
  /\ LET q == Begin(r, "getCluster", "", <<>>, token)
         u == FindUserBySessionToken(workshop_users, token)
         user == Snapshot(workshop_users, u)
     IN req' = Answer(r,
          IF u = NoId THEN Respond(q, 401, NoBody)
          ELSE IF NoAssignment(user)
               THEN Respond([q EXCEPT !.user = user], 404, NoBody)
               ELSE Respond([q EXCEPT !.user = user], 200,
                            GetClusterResponse(user)))
  /\ Track

\* authenticateUser (db.findWorkshopUserBySessionToken) and the check of the
\* caller's row in GET /api/user/cluster
PrismaGetClusterBegin(r, token) ==
  /\ variant = "prisma"
  /\ CanStart(r)
  /\ started' = started + 1
  /\ UNCHANGED <<admin, variant, store>>
  /\ LET q == Begin(r, "getCluster", "", <<>>, token)
         u == FindUserBySessionToken(workshop_users, token)
         user == Snapshot(workshop_users, u)
     IN req' = Answer(r,
          IF u = NoId THEN Respond(q, 401, NoBody)
          ELSE IF NoAssignment(user)
               THEN Respond([q EXCEPT !.user = user], 404, NoBody)
               ELSE [q EXCEPT !.pc = "p_findClusterById", !.user = user])
  /\ Track

\* db.findClusterById(user.clusterId)
PrismaGetClusterFindCluster(r) ==
  /\ variant = "prisma"
  /\ req[r].pc = "p_findClusterById"
  /\ UNCHANGED <<admin, variant, started, store>>
  /\ req' = [req EXCEPT ![r].pc = "p_findDemoUserById"]
  /\ Track

\* db.findDemoUserById(user.demoUserId) and the answer
PrismaGetClusterFindDemoUser(r) ==
  /\ variant = "prisma"
  /\ req[r].pc = "p_findDemoUserById"
  /\ UNCHANGED <<admin, variant, started, store>>
  /\ req' = Answer(r,
       IF req[r].user.clusterId \notin DOMAIN clusters
          \/ req[r].user.demoUserId \notin DOMAIN demo_users
       THEN Respond(req[r], 404, NoBody)
       ELSE Respond(req[r], 200, GetClusterResponse(req[r].user)))
  /\ Track

\* authenticateUser and the check of the caller's row in
\* GET /api/shared/cluster
PrismaSharedClusterBegin(r, token) ==
  /\ variant = "prisma"
  /\ CanStart(r)
  /\ started' = started + 1
  /\ UNCHANGED <<admin, variant, store>>
  /\ LET q == Begin(r, "sharedCluster", "", <<>>, token)
         u == FindUserBySessionToken(workshop_users, token)
         user == Snapshot(workshop_users, u)
     IN req' = Answer(r,
          IF u = NoId THEN Respond(q, 401, NoBody)
          ELSE IF user.demoUserId = NoId
               THEN Respond([q EXCEPT !.user = user], 404, NoBody)
               ELSE [q EXCEPT !.pc = "p_getAllSharedClusters", !.user = user])
  /\ Track

\* db.getAllSharedClusters()
PrismaGetAllSharedClusters(r) ==
  /\ variant = "prisma"
  /\ req[r].pc = "p_getAllSharedClusters"
  /\ UNCHANGED <<admin, variant, started, store>>
  /\ req' = Answer(r,
       IF Len(shared_clusters) = 0 THEN Respond(req[r], 404, NoBody)
       ELSE [req[r] EXCEPT !.pc = "p_sharedDemoUser"])
  /\ Track

\* db.findDemoUserById(user.demoUserId) and the answer
PrismaSharedClusterFindDemoUser(r) ==
  /\ variant = "prisma"
  /\ req[r].pc = "p_sharedDemoUser"
  /\ UNCHANGED <<admin, variant, started, store>>
  /\ req' = Answer(r,
       IF req[r].user.demoUserId \notin DOMAIN demo_users
       THEN Respond(req[r], 404, NoBody)
       ELSE Respond(req[r], 200, SharedInfo(req[r].user.demoUserId)))
  /\ Track

\* the rows of a table that are marked reserved
Reserved(rows) == {k \in DOMAIN rows : rows[k].isReserved}
\* figures whose available is always the total
SqliteFigures_AllAvailable(rows) ==
  [total |-> Cardinality(DOMAIN rows),
   reserved |-> Cardinality(Reserved(rows)),
   available |-> Cardinality(DOMAIN rows)]
\* SELECT COUNT(*) ..., SELECT COUNT(*) ... WHERE is_reserved = 1;
\* available: total.count - reserved.count
SqliteFigures(rows) ==
  [total |-> Cardinality(DOMAIN rows),
   reserved |-> Cardinality(Reserved(rows)),
   available |-> Cardinality(DOMAIN rows) - Cardinality(Reserved(rows))]
\* rows.length, rows.filter(c => c.isReserved).length,
\* rows.filter(c => !c.isReserved).length
PrismaFigures(rows) ==
  [total |-> Cardinality(DOMAIN rows),
   reserved |-> Cardinality({k \in DOMAIN rows : rows[k].isReserved}),
   available |-> Cardinality({k \in DOMAIN rows : ~rows[k].isReserved})]

\* GET /api/admin/stats (no authenticateUser, no await: one step)
SqliteAdminStats(r) ==
  /\ variant = "sqlite"
  /\ CanStart(r)
  /\ started' = started + 1
  /\ UNCHANGED <<admin, variant, store>>
  /\ LET q == Begin(r, "stats", "", <<>>, NoToken)
     IN req' = Answer(r, Respond(
          [q EXCEPT !.stats =
             [clusters |-> SqliteFigures(clusters),
              demoUsers |-> SqliteFigures(demo_users),
              workshopUsers |-> [total |-> Len(workshop_users)]]],
          200, NoBody))
  /\ Track

\* GET /api/admin/stats: db.getAllClusters()
PrismaAdminStatsBegin(r) ==
  /\ variant = "prisma"
  /\ CanStart(r)
  /\ started' = started + 1
  /\ UNCHANGED <<admin, variant, store>>
  /\ LET q == Begin(r, "stats", "", <<>>, NoToken)
     IN req' = Answer(r,
          [q EXCEPT !.pc = "p_getAllDemoUsers",
                    !.stats.clusters = PrismaFigures(clusters)])
  /\ Track

\* db.getAllDemoUsers()
PrismaAdminStatsDemoUsers(r) ==
  /\ variant = "prisma"
  /\ req[r].pc = "p_getAllDemoUsers"
  /\ UNCHANGED <<admin, variant, started, store>>
  /\ req' = [req EXCEPT ![r].pc = "p_getAllWorkshopUsers",
                        ![r].stats.demoUsers = PrismaFigures(demo_users)]
  /\ Track

\* db.getAllWorkshopUsers() and the answer
PrismaAdminStatsWorkshopUsers(r) ==
  /\ variant = "prisma"
  /\ req[r].pc = "p_getAllWorkshopUsers"
  /\ UNCHANGED <<admin, variant, started, store>>
  /\ req' = Answer(r, Respond(
       [req[r] EXCEPT !.stats.workshopUsers =
          [total |-> Len(workshop_users),
           withClusters |->
             Cardinality({u \in UserIds : workshop_users[u].clusterId # NoId})]],
       200, NoBody))
  /\ Track

\* a deployment with or without its shared cluster loaded
ReadInit ==
  /\ variant \in {"sqlite", "prisma"}
  /\ clusters = [c \in ClusterIds |-> FreeCluster]
  /\ \/ variant = "sqlite" /\ demo_users = SeededDemoUsers
     \/ variant = "prisma" /\ \E n \in 1..MaxGlobalDemoUsers :
                                 demo_users = GlobalDemoUsers(n)
  /\ workshop_users = <<>>
  /\ req = [r \in Slots |-> IdleReq]
  /\ started = 0
  /\ lastSuccess = [e \in Emails |-> NoBody]
  /\ shared_clusters \in {<<>>, <<SharedCluster>>}
  /\ loader = IdleLoader

\* every endpoint of the two servers
ReadNext ==
  \/ SqliteNext
  \/ PrismaNext
  \/ \E r \in Slots, t \in TokenInputs : SqliteGetCluster(r, t)
  \/ \E r \in Slots, t \in TokenInputs : PrismaGetClusterBegin(r, t)
  \/ \E r \in Slots : PrismaGetClusterFindCluster(r)
  \/ \E r \in Slots : PrismaGetClusterFindDemoUser(r)
  \/ \E r \in Slots, t \in TokenInputs : PrismaSharedClusterBegin(r, t)
  \/ \E r \in Slots : PrismaGetAllSharedClusters(r)
  \/ \E r \in Slots : PrismaSharedClusterFindDemoUser(r)
  \/ \E r \in Slots : SqliteAdminStats(r)
  \/ \E r \in Slots : PrismaAdminStatsBegin(r)
  \/ \E r \in Slots : PrismaAdminStatsDemoUsers(r)
  \/ \E r \in Slots : PrismaAdminStatsWorkshopUsers(r)

SpecRead == ReadInit /\ [][ReadNext]_vars

\* ---------------------------------------------------- operator commands
\* release <cluster_id>, release-all and reset-users, run from a shell while
\* the server is up.  loader is the state of the script's process.
\* history: cmd and arg name the command, quiet says that no request was in
\* flight when it began, startedAt the number of requests begun until then.
OperatorFree ==
  /\ loader.pc \in {"idle", "done", "failed"}
  /\ loader.run < MaxCommands
  /\ started <= MaxRequestsOps
\* 0 stands for a missing or non-numeric argument, NumClusters + 1 for the
\* id of no cluster
CommandArgs == 0..(NumClusters + 1)
BeginCommand(cmd, arg, pc) ==
  [IdleLoader EXCEPT !.pc = pc, !.cmd = cmd, !.arg = arg,
                     !.run = loader.run + 1, !.quiet = Quiescent,
                     !.startedAt = started]

\* main, case 'release': releaseCluster(parseInt(args[0])) up to the answer
\* of findUnique
PrismaOpReleaseBegin(cid) ==
  /\ variant = "prisma"
  /\ OperatorFree
  /\ UNCHANGED <<variant, store, shared_clusters, req, started, lastSuccess>>
  /\ loader' = BeginCommand("release", cid,
                  IF cid = 0 \/ cid \notin DOMAIN clusters THEN "failed"
                  ELSE "o_updateCluster")

\* prisma.cluster.update({ where: { id }, data: { isReserved: false, ... } })
PrismaOpUpdateCluster ==
  /\ loader.pc = "o_updateCluster"
  /\ UNCHANGED <<variant, demo_users, workshop_users, shared_clusters, req,
                 started, lastSuccess>>
  /\ clusters' = releaseCluster(clusters, loader.arg)
  /\ loader' = [loader EXCEPT !.pc = "o_findFirst"]

\* prisma.workshopUser.findFirst({ where: { clusterId } })
PrismaOpFindFirst ==
  /\ loader.pc = "o_findFirst"
  /\ UNCHANGED <<variant, store, shared_clusters, req, started, lastSuccess>>
  /\ LET S == {u \in UserIds : workshop_users[u].clusterId = loader.arg}
     IN IF S # {} /\ workshop_users[Min(S)].demoUserId # NoId
        THEN loader' = [loader EXCEPT !.pc = "o_updateDemoUser",
                          !.found = Min(S),
                          !.demo = workshop_users[Min(S)].demoUserId]
        ELSE loader' = [loader EXCEPT !.pc = "done"]

\* prisma.demoUser.update({ where: { id: workshopUser.demoUserId }, ... })
PrismaOpUpdateDemoUser ==
  /\ loader.pc = "o_updateDemoUser"
  /\ UNCHANGED <<variant, clusters, workshop_users, shared_clusters, req,
                 started, lastSuccess>>
  /\ demo_users' = releaseDemoUser(demo_users, loader.demo)
  /\ loader' = [loader EXCEPT !.pc = "o_updateUser"]

\* prisma.workshopUser.update({ where: { id }, data: { clusterId: null,
\* demoUserId: null } })
PrismaOpUpdateUser ==
  /\ loader.pc = "o_updateUser"
  /\ UNCHANGED <<variant, clusters, demo_users, shared_clusters, req,
                 started, lastSuccess>>
  /\ workshop_users' = clearWorkshopUserAssignment(workshop_users, loader.found)
  /\ loader' = [loader EXCEPT !.pc = "done"]

\* updateMany without a where clause
Unbound(row) == [row EXCEPT !.clusterId = NoId, !.demoUserId = NoId]
ReleaseAllRows(rows) == [k \in DOMAIN rows |-> ReleaseRow(rows[k])]
ClearAllAssignments(wu) == [u \in DOMAIN wu |-> Unbound(wu[u])]

\* main, case 'release-all': releaseAllClusters, prisma.cluster.updateMany
PrismaOpReleaseAllBegin ==
  /\ variant = "prisma"
  /\ OperatorFree
  /\ UNCHANGED <<variant, demo_users, workshop_users, shared_clusters, req,
                 started, lastSuccess>>
  /\ loader' = BeginCommand("release-all", 0, "o_allDemoUsers")
  /\ clusters' = ReleaseAllRows(clusters)

\* prisma.demoUser.updateMany
PrismaOpReleaseAllDemoUsers ==
  /\ loader.pc = "o_allDemoUsers"
  /\ UNCHANGED <<variant, clusters, workshop_users, shared_clusters, req,
                 started, lastSuccess>>
  /\ demo_users' = ReleaseAllRows(demo_users)
  /\ loader' = [loader EXCEPT !.pc = "o_allUsers"]

\* prisma.workshopUser.updateMany
PrismaOpReleaseAllUsers ==
  /\ loader.pc = "o_allUsers"
  /\ UNCHANGED <<variant, clusters, demo_users, shared_clusters, req,
                 started, lastSuccess>>
  /\ workshop_users' = ClearAllAssignments(workshop_users)
  /\ loader' = [loader EXCEPT !.pc = "done"]

\* main, case 'reset-users': resetUsers, prisma.workshopUser.count()
PrismaOpResetUsersBegin ==
  /\ variant = "prisma"
  /\ OperatorFree
  /\ UNCHANGED <<variant, store, shared_clusters, req, started, lastSuccess>>
  /\ loader' = BeginCommand("reset-users", 0, "o_deleteMany")

\* prisma.workshopUser.deleteMany().  The rows are deleted while no handler
\* holds the id of one (no request in flight).
PrismaOpDeleteMany ==
  /\ loader.pc = "o_deleteMany"
  /\ Quiescent
  /\ UNCHANGED <<variant, clusters, demo_users, shared_clusters, req,
                 started, lastSuccess>>
  /\ workshop_users' = <<>>
  /\ loader' = [loader EXCEPT !.pc = "done"]

\* release_cluster of the sqlite script: UPDATE clusters ... WHERE id = ?
\* (an id of no cluster updates no row; a missing id ends the script)
SqliteOpReleaseBegin(cid) ==
  /\ variant = "sqlite"
  /\ OperatorFree
  /\ UNCHANGED <<variant, demo_users, workshop_users, shared_clusters, req,
                 started, lastSuccess>>
  /\ IF cid = 0
     THEN /\ loader' = BeginCommand("release", cid, "failed")
          /\ UNCHANGED clusters
     ELSE /\ loader' = BeginCommand("release", cid, "o_demoUsersOfCluster")
          /\ clusters' = [c \in DOMAIN clusters |->
                            IF c = cid THEN ReleaseRow(clusters[c])
                            ELSE clusters[c]]

\* UPDATE demo_users SET is_reserved = 0, ... WHERE cluster_id = ?
SqliteOpReleaseDemoUsers ==
  /\ loader.pc = "o_demoUsersOfCluster"
  /\ UNCHANGED <<variant, clusters, workshop_users, shared_clusters, req,
                 started, lastSuccess>>
  /\ demo_users' = [d \in DOMAIN demo_users |->
                      IF demo_users[d].cluster_id = loader.arg
                      THEN ReleaseRow(demo_users[d]) ELSE demo_users[d]]
  /\ loader' = [loader EXCEPT !.pc = "done"]

\* release_all of the sqlite script: UPDATE clusters SET is_reserved = 0, ...
SqliteOpReleaseAllBegin ==
  /\ variant = "sqlite"
  /\ OperatorFree
  /\ UNCHANGED <<variant, demo_users, workshop_users, shared_clusters, req,
                 started, lastSuccess>>
  /\ loader' = BeginCommand("release-all", 0, "o_allDemoUsersSqlite")
  /\ clusters' = ReleaseAllRows(clusters)

\* UPDATE demo_users SET is_reserved = 0, ...
SqliteOpReleaseAllDemoUsers ==
  /\ loader.pc = "o_allDemoUsersSqlite"
  /\ UNCHANGED <<variant, clusters, workshop_users, shared_clusters, req,
                 started, lastSuccess>>
  /\ demo_users' = ReleaseAllRows(demo_users)
  /\ loader' = [loader EXCEPT !.pc = "done"]

\* reset_users of the sqlite script: DELETE FROM workshop_users, run while
\* no handler holds the id of a row (no request in flight)
SqliteOpResetUsers ==
  /\ variant = "sqlite"
  /\ OperatorFree
  /\ Quiescent
  /\ UNCHANGED <<variant, clusters, demo_users, shared_clusters, req,
                 started, lastSuccess>>
  /\ workshop_users' = <<>>
  /\ loader' = BeginCommand("reset-users", 0, "done")

OpsNext ==
  \/ SqliteNext
  \/ PrismaNext
  \/ \E cid \in CommandArgs : PrismaOpReleaseBegin(cid)
  \/ PrismaOpUpdateCluster
  \/ PrismaOpFindFirst
  \/ PrismaOpUpdateDemoUser
  \/ PrismaOpUpdateUser
  \/ PrismaOpReleaseAllBegin
  \/ PrismaOpReleaseAllDemoUsers
  \/ PrismaOpReleaseAllUsers
  \/ PrismaOpResetUsersBegin
  \/ PrismaOpDeleteMany
  \/ \E cid \in CommandArgs : SqliteOpReleaseBegin(cid)
  \/ SqliteOpReleaseDemoUsers
  \/ SqliteOpReleaseAllBegin
  \/ SqliteOpReleaseAllDemoUsers
  \/ SqliteOpResetUsers

SpecOps == Init /\ [][OpsNext]_vars

\* ------------------------------------ db-manage-prisma.js load-yaml <file>
\* the rows the loader creates (the reservation columns take their defaults)
LoadedCluster(name, url) ==
  [name |-> name, url |-> url, username |-> "", password |-> "",
   isReserved |-> FALSE, reservedBy |-> Null, reservedAt |-> Null]
LoadedDemoUser(username, password) ==
  [username |-> username, password |-> password, cluster_id |-> NoId,
   isReserved |-> FALSE, reservedBy |-> Null, reservedAt |-> Null]

\* `${n}` for the numbers the loader can reach
Decimal == <<"1", "2", "3", "4", "5", "6", "7", "8", "9">>
\* username ? `cluster-${username}` : `cluster-${addedCount + 1}`
\* (a name is kept as its two parts)
ClusterName(username, addedCount) ==
  IF username # "" THEN <<"cluster-", username>>
  ELSE <<"cluster-", Decimal[addedCount + 1]>>
\* a create that writes over the newest row of the table
create_Overwriting(table, row) ==
  IF table = <<>> THEN <<row>> ELSE [table EXCEPT ![Len(table)] = row]
\* a create that inserts the row twice
create_Twice(table, row) == Append(Append(table, row), row)
\* prisma.<model>.create({ data }): the new row gets the next id
create(table, row) == Append(table, row)

\* findUnique({ where: { name } }) / ({ where: { username } })
Exists(table, field, value) ==
  \E k \in 1..Len(table) : table[k][field] = value

\* the entries a data file is made of; "" is a missing or empty field
SharedEntries ==
  {[cluster_url |-> "", name |-> ""],
   [cluster_url |-> "https://new", name |-> ""],
   [cluster_url |-> "https://new", name |-> "other"]}
ClusterEntries ==
  {[cluster_url |-> "", username |-> "a"],
   [cluster_url |-> "https://new", username |-> "a"],
   [cluster_url |-> "https://new", username |-> "1"],
   [cluster_url |-> "https://new", username |-> ""]}
DemoUserEntries ==
  {[username |-> "", password |-> "new"],
   [username |-> "user1", password |-> ""],
   [username |-> "user1", password |-> "new"],
   [username |-> "user2", password |-> "new"]}
Lists(S) == UNION {[1..n -> S] : n \in 0..MaxEntries}
DataFiles ==
  [shared_cluster : {<<>>} \cup {<<e>> : e \in SharedEntries},
   user_clusters : Lists(ClusterEntries),
   demo_users : Lists(DemoUserEntries)]

\* the script is run on an empty store, or on one that an earlier load has
\* filled and where a Participant holds a Cluster and a DemoUser
LoadInit ==
  /\ variant = "prisma"
  /\ req = [r \in Slots |-> IdleReq]
  /\ started = 0
  /\ lastSuccess = [e \in Emails |-> NoBody]
  /\ loader = IdleLoader
  /\ \/ /\ clusters = <<>>
        /\ demo_users = <<>>
        /\ shared_clusters = <<>>
        /\ workshop_users = <<>>
     \/ /\ clusters =
             <<ReserveRow(LoadedCluster(<<"cluster-", "a">>, "https://old"),
                          "a@x")>>
        /\ demo_users = <<ReserveRow(LoadedDemoUser("user1", "old"), "a@x")>>
        /\ shared_clusters = <<[name |-> "shared-cluster", url |-> "https://old"]>>
        /\ workshop_users =
             <<[NewWorkshopUser("a@x", Hash(RightPassword))
                  EXCEPT !.clusterId = 1, !.demoUserId = 1]>>

\* the state the run ends in, with the record counts after the first run
Finished(l, pc, cl, du, sc) ==
  [l EXCEPT !.pc = pc,
            !.first = IF l.run = 1 THEN <<Len(cl), Len(du), Len(sc)>> ELSE @]

\* main, case 'load-yaml': loadFromYaml reads the file; the script is run
\* on a file, and then once more on the same file
LoadFromYaml(file) ==
  /\ \/ loader.pc = "idle"
     \/ /\ loader.pc \in {"done", "failed"}
        /\ loader.run < MaxRuns
        /\ file = loader.file
  /\ loader' = [loader EXCEPT !.pc = "shared", !.file = file, !.i = 0,
                              !.addedCount = 0, !.skippedCount = 0,
                              !.run = @ + 1, !.report = NoReport,
                              !.before = <<Len(clusters), Len(demo_users)>>]
  /\ UNCHANGED <<variant, store, shared_clusters, req, started, lastSuccess>>

\* if (data.shared_cluster) loadSharedClusterData(data.shared_cluster)
LoadSharedClusterData ==
  /\ loader.pc = "shared"
  /\ UNCHANGED <<variant, store, req, started, lastSuccess>>
  /\ IF loader.file.shared_cluster = <<>>
     THEN /\ UNCHANGED shared_clusters
          /\ loader' = [loader EXCEPT !.pc = "user_clusters", !.i = 1]
     ELSE LET e == loader.file.shared_cluster[1]
              name == IF e.name = "" THEN "shared-cluster" ELSE e.name
          IN IF e.cluster_url = ""
             THEN /\ UNCHANGED shared_clusters
                  /\ loader' = Finished(loader, "failed", clusters, demo_users,
                                        shared_clusters)
             ELSE /\ shared_clusters' =
                       IF Exists(shared_clusters, "name", name)
                       THEN shared_clusters
                       ELSE create(shared_clusters,
                                   [name |-> name, url |-> e.cluster_url])
                  /\ loader' = [loader EXCEPT !.pc = "user_clusters", !.i = 1]

\* one turn of the loop of loadUserClustersData
LoadUserCluster ==
  /\ loader.pc = "user_clusters"
  /\ loader.i <= Len(loader.file.user_clusters)
  /\ UNCHANGED <<variant, demo_users, workshop_users, shared_clusters, req,
                 started, lastSuccess>>
  /\ LET e == loader.file.user_clusters[loader.i]
         clusterName == ClusterName(e.username, loader.addedCount)
     IN IF e.cluster_url = "" \/ Exists(clusters, "name", clusterName)
        THEN /\ UNCHANGED clusters
             /\ loader' = [loader EXCEPT !.i = @ + 1, !.skippedCount = @ + 1]
        ELSE /\ clusters' =
                  create(clusters, LoadedCluster(clusterName, e.cluster_url))
             /\ loader' = [loader EXCEPT !.i = @ + 1, !.addedCount = @ + 1]

\* the end of loadUserClustersData: the counts are reported
LoadUserClustersReport ==
  /\ loader.pc = "user_clusters"
  /\ loader.i > Len(loader.file.user_clusters)
  /\ UNCHANGED <<variant, store, shared_clusters, req, started, lastSuccess>>
  /\ loader' = [loader EXCEPT !.pc = "demo_users", !.i = 1,
                  !.report.user_clusters =
                     <<loader.addedCount, loader.skippedCount>>,
                  !.addedCount = 0, !.skippedCount = 0]

\* one turn of the loop of loadDemoUsersData
LoadDemoUser ==
  /\ loader.pc = "demo_users"
  /\ loader.i <= Len(loader.file.demo_users)
  /\ UNCHANGED <<variant, clusters, workshop_users, shared_clusters, req,
                 started, lastSuccess>>
  /\ LET e == loader.file.demo_users[loader.i]
     IN IF \/ e.username = "" \/ e.password = ""
           \/ Exists(demo_users, "username", e.username)
        THEN /\ UNCHANGED demo_users
             /\ loader' = [loader EXCEPT !.i = @ + 1, !.skippedCount = @ + 1]
        ELSE /\ demo_users' =
                  create(demo_users, LoadedDemoUser(e.username, e.password))
             /\ loader' = [loader EXCEPT !.i = @ + 1, !.addedCount = @ + 1]

\* the end of loadDemoUsersData and of the run
LoadDemoUsersReport ==
  /\ loader.pc = "demo_users"
  /\ loader.i > Len(loader.file.demo_users)
  /\ UNCHANGED <<variant, store, shared_clusters, req, started, lastSuccess>>
  /\ loader' =
       Finished([loader EXCEPT !.report.demo_users =
                                  <<loader.addedCount, loader.skippedCount>>,
                               !.addedCount = 0, !.skippedCount = 0, !.i = 0],
                "done", clusters, demo_users, shared_clusters)

LoadNext ==
  \/ \E file \in DataFiles : LoadFromYaml(file)
  \/ LoadSharedClusterData
  \/ LoadUserCluster
  \/ LoadUserClustersReport
  \/ LoadDemoUser
  \/ LoadDemoUsersReport

SpecLoad == LoadInit /\ [][LoadNext]_vars

TypeOK ==
  /\ variant \in {"sqlite", "prisma"}
  /\ started \in 0..MaxRequests
  /\ \A r \in Slots : req[r].pc = "done" <=> req[r].status # 0
  /\ \A r \in Slots : req[r].status \in {0, 200, 400, 401, 404, 500, 503}


\* ================================================================== claims
Stepped(r) == req'[r] # req[r]
Bound(u) ==
  workshop_users[u].clusterId # NoId /\ workshop_users[u].demoUserId # NoId
\* the cluster a prisma login is working on in its reservation loop
Current(r) == req[r].list[req[r].idx]

\* C1: in every reachable state no Cluster is the clusterId of two different
\* Participants and no DemoUser is the demoUserId of two different
\* Participants.
C1_ExclusiveBinding ==
  \A u1, u2 \in UserIds :
    u1 # u2 =>
      /\ workshop_users[u1].clusterId # NoId =>
           workshop_users[u1].clusterId # workshop_users[u2].clusterId
      /\ workshop_users[u1].demoUserId # NoId =>
           workshop_users[u1].demoUserId # workshop_users[u2].demoUserId

\* C2: whenever no request is in flight, a Cluster is marked reserved exactly
\* when some Participant's clusterId references it.
C2_NoOrphanedReservation ==
  Quiescent =>
    \A c \in ClusterIds :
      clusters[c].isReserved <=>
        \E u \in UserIds : workshop_users[u].clusterId = c

\* C3: a reservation attempt on a Cluster or DemoUser that is already reserved
\* fails: the record stays as it is, and the attempting login does not go on
\* as if it had reserved it.
C3_LosingAttemptFails ==
  [][/\ \A c \in ClusterIds :
          clusters[c].isReserved /\ clusters'[c].isReserved =>
            clusters'[c] = clusters[c]
     /\ \A d \in DemoIds :
          demo_users[d].isReserved /\ demo_users'[d].isReserved =>
            demo_users'[d] = demo_users[d]
     /\ \A r \in Slots :
          /\ req[r].pc = "p_reserveCluster" /\ Stepped(r)
               /\ clusters[Current(r)].isReserved
               => req'[r].pc # "p_findDemoUser2"
          /\ req[r].pc = "p_reserveDemoUser" /\ Stepped(r)
               /\ demo_users[req[r].demo].isReserved
               => req'[r].pc # "p_updateUser"]_vars

C5_BindingAllOrNothing ==
  \A u \in UserIds :
    workshop_users[u].clusterId = NoId <=> workshop_users[u].demoUserId = NoId

\* a release has succeeded while another Participant is bound
C5_Witness ==
  /\ \E r \in Slots : req[r].op = "release" /\ req[r].status = 200
  /\ \E u \in UserIds : Bound(u)
  /\ \E u \in UserIds : ~Bound(u) /\ workshop_users[u].lastLogin # Null

\* C6: a successful login that follows a successful login of the same
\* Participant, with no release in between, answers with the same
\* Cluster/DemoUser pair and a different session token.
C6_IdempotentRelogin ==
  \A r \in Slots :
    req[r].pc = "done" /\ req[r].expect # NoBody =>
      /\ req[r].body.cluster = req[r].expect.cluster
      /\ req[r].body.demoUser = req[r].expect.demoUser
      /\ req[r].body.token # req[r].expect.token

\* the request that begins in this step is the one in slot r
Began(r) == CanStart(r) /\ started' = started + 1
\* slot r takes a later step of a release request
ReleaseStep(r) == req[r].op = "release" /\ ~Free(r) /\ Stepped(r)
FreedDemoUser(row) ==
  [row EXCEPT !.isReserved = FALSE, !.reservedBy = Null, !.reservedAt = Null]

ReleasesOwnPair(r) ==
  LET cur == workshop_users[req[r].user.id]
  IN /\ req[r].pc = "p_releaseCluster"
          /\ clusters[req[r].user.clusterId].isReserved
          => cur.clusterId = req[r].user.clusterId
     /\ req[r].pc = "p_releaseDemoUser"
          /\ demo_users[req[r].user.demoUserId].isReserved
          => cur.demoUserId = req[r].user.demoUserId
     /\ req[r].pc = "p_clearAssignment" /\ cur.clusterId # NoId
          => /\ cur.clusterId = req[r].user.clusterId
             /\ cur.demoUserId = req[r].user.demoUserId

\* C8: a release of a bound Participant writes exactly three things: the
\* Participant's Cluster becomes unreserved with reservedBy and reservedAt
\* cleared, the Participant's DemoUser likewise, and the Participant's
\* clusterId and demoUserId become null; it answers 200 once all three are
\* written, and every other record and field stays as it is.
C8_ReleaseFreesExactlyOnePair ==
  [][\A r \in Slots :
       /\ Began(r) /\ req'[r].op = "release" /\ req'[r].status = 200 =>
            LET u == FindUserBySessionToken(workshop_users, req'[r].token)
            IN /\ u # NoId /\ Bound(u)
               /\ clusters' = [clusters EXCEPT
                     ![workshop_users[u].clusterId] = FreeCluster]
               /\ demo_users' = [demo_users EXCEPT
                     ![workshop_users[u].demoUserId] = FreedDemoUser(@)]
               /\ workshop_users' = [workshop_users EXCEPT ![u] = Unbound(@)]
       /\ Began(r) /\ req'[r].op = "release" /\ ~Free(r)' =>
            LET u == FindUserBySessionToken(workshop_users, req'[r].token)
            IN /\ u # NoId /\ Bound(u)
               /\ req'[r].user = Snapshot(workshop_users, u)
               /\ req'[r].pc = "p_releaseCluster"
               /\ store' = store
       /\ ReleaseStep(r) /\ req[r].pc = "p_releaseCluster" =>
            /\ clusters' = [clusters EXCEPT
                  ![req[r].user.clusterId] = FreeCluster]
            /\ demo_users' = demo_users /\ workshop_users' = workshop_users
            /\ req'[r].pc = "p_releaseDemoUser"
            /\ req'[r].user = req[r].user
       /\ ReleaseStep(r) /\ req[r].pc = "p_releaseDemoUser" =>
            /\ demo_users' = [demo_users EXCEPT
                  ![req[r].user.demoUserId] = FreedDemoUser(@)]
            /\ clusters' = clusters /\ workshop_users' = workshop_users
            /\ req'[r].pc = "p_clearAssignment"
            /\ req'[r].user = req[r].user
       /\ ReleaseStep(r) /\ req[r].pc = "p_clearAssignment" =>
            /\ workshop_users' =
                 [workshop_users EXCEPT ![req[r].user.id] = Unbound(@)]
            /\ clusters' = clusters /\ demo_users' = demo_users
            /\ req'[r].status = 200
       /\ ReleaseStep(r) =>
            /\ req[r].pc \in {"p_releaseCluster", "p_releaseDemoUser",
                              "p_clearAssignment"}
            /\ ReleasesOwnPair(r)]_vars

\* a release has succeeded while another Participant keeps its reserved pair
C8_Witness ==
  /\ \E r \in Slots : req[r].op = "release" /\ req[r].status = 200
  /\ \E u \in UserIds :
       /\ Bound(u)
       /\ clusters[workshop_users[u].clusterId].isReserved
       /\ demo_users[workshop_users[u].demoUserId].isReserved
  /\ \E c \in ClusterIds : ~clusters[c].isReserved

\* C9: a release whose token belongs to a Participant with a null clusterId
\* or demoUserId answers 404 at once and changes no record.
C9_ReleaseWithoutBinding ==
  [][\A r \in Slots :
       Began(r) /\ req'[r].op = "release" =>
         LET u == FindUserBySessionToken(workshop_users, req'[r].token)
         IN u # NoId /\ ~Bound(u) =>
              /\ req'[r].pc = "done"
              /\ req'[r].status = 404
              /\ store' = store]_vars

\* a release has answered 404 to a Participant that was bound before (it has
\* logged in successfully) and has been released since
C9_Witness ==
  \E r \in Slots :
    /\ req[r].op = "release" /\ req[r].status = 404
    /\ \E u \in UserIds :
         /\ workshop_users[u].sessionToken = req[r].token
         /\ workshop_users[u].lastLogin # Null
         /\ ~Bound(u)

\* C10: no step of a release request changes any Participant's sessionToken,
\* so a token that authenticated a Participant before the step still
\* authenticates the same Participant after it.
C10_ReleaseKeepsSessionToken ==
  [][\A r \in Slots :
       (Began(r) /\ req'[r].op = "release") \/ ReleaseStep(r) =>
         /\ Len(workshop_users') = Len(workshop_users)
         /\ \A u \in UserIds :
              workshop_users'[u].sessionToken = workshop_users[u].sessionToken
         /\ \A t \in 1..MaxRequests :
              FindUserBySessionToken(workshop_users', t) =
                FindUserBySessionToken(workshop_users, t)]_vars

\* a release has succeeded and the token it was called with still
\* authenticates a Participant, who is no longer bound
C10_Witness ==
  \E r \in Slots :
    /\ req[r].op = "release" /\ req[r].status = 200
    /\ FindUserBySessionToken(workshop_users, req[r].token) # NoId
    /\ ~Bound(FindUserBySessionToken(workshop_users, req[r].token))


\* every Cluster is reserved
NoClusterFree == \A c \in ClusterIds : clusters[c].isReserved
\* the row a login of a new email has just inserted has no binding, no token
\* and no login time
InsertedUnbound(email) ==
  /\ Len(workshop_users') = Len(workshop_users) + 1
  /\ \A u \in UserIds : workshop_users'[u] = workshop_users[u]
  /\ LET row == workshop_users'[Len(workshop_users')]
     IN /\ row.email = email
        /\ row.clusterId = NoId /\ row.demoUserId = NoId
        /\ row.sessionToken = NoToken /\ row.lastLogin = Null

\* C11: when every Cluster is reserved, a valid login of an email that has no
\* Participant answers 503, changes no Cluster and no DemoUser, and the
\* Participant row it creates has null clusterId, demoUserId and
\* sessionToken.  (sqlite: the insert and the answer are one step; prisma: the
\* insert is one step and the listing of the free clusters, which answers,
\* the next.)
C11_ExhaustedNewParticipant ==
  [][\A r \in Slots :
       /\ req[r].pc = "s_hash" /\ Stepped(r) /\ NoClusterFree
            /\ FindUserByEmail(workshop_users, req[r].email) = NoId
            => /\ req'[r].status = 503
               /\ clusters' = clusters /\ demo_users' = demo_users
               /\ InsertedUnbound(req[r].email)
       /\ req[r].pc = "p_create" /\ Stepped(r)
            /\ FindUserByEmail(workshop_users, req[r].email) = NoId
            => /\ clusters' = clusters /\ demo_users' = demo_users
               /\ InsertedUnbound(req[r].email)
               /\ req'[r].pc = "p_findAvailable"
               /\ req'[r].user.id = Len(workshop_users')
       /\ req[r].pc = "p_findAvailable" /\ Stepped(r) /\ NoClusterFree
            => /\ req'[r].status = 503
               /\ store' = store]_vars

\* a login has answered 503 with every Cluster reserved, and the Participant
\* of its email has never been bound or given a token
C11_Witness ==
  /\ Quiescent
  /\ NoClusterFree
  /\ \E r \in Slots :
       /\ req[r].op = "login" /\ req[r].status = 503
       /\ LET u == FindUserByEmail(workshop_users, req[r].email)
          IN /\ u # NoId
             /\ workshop_users[u].clusterId = NoId
             /\ workshop_users[u].demoUserId = NoId
             /\ workshop_users[u].sessionToken = NoToken
             /\ workshop_users[u].lastLogin = Null

\* --------------------------------------------------- burst of first logins
\* More first-time logins than there are clusters, each with an email of its
\* own and a valid password, and no other request: the scenario of the
\* exhaustion test.  The prisma pool holds one demo user per cluster.
BurstLogins == NumClusters + 1
BurstEmailPool == <<"a@x", "b@x", "c@x", "d@x", "e@x">>
BurstEmails == {BurstEmailPool[i] : i \in 1..BurstLogins}

BurstInit ==
  /\ variant \in {"sqlite", "prisma"}
  /\ clusters = [c \in ClusterIds |-> FreeCluster]
  /\ demo_users = IF variant = "sqlite" THEN SeededDemoUsers
                  ELSE GlobalDemoUsers(NumClusters)
  /\ workshop_users = <<>>
  /\ req = [r \in Slots |-> IdleReq]
  /\ started = 0
  /\ lastSuccess = [e \in Emails |-> NoBody]
  /\ shared_clusters = <<SharedCluster>>
  /\ loader = IdleLoader

\* no login of this email has been issued yet
FirstTime(email) ==
  /\ FindUserByEmail(workshop_users, email) = NoId
  /\ \A r \in Slots : req[r].email # email

BurstNext ==
  \/ \E r \in Slots, e \in BurstEmails :
       FirstTime(e) /\ SqliteLoginBegin(r, e, RightPassword)
  \/ \E r \in Slots : SqliteLoginCreate(r)
  \/ \E r \in Slots, e \in BurstEmails :
       FirstTime(e) /\ PrismaLoginBegin(r, e, RightPassword)
  \/ \E r \in Slots : PrismaCreateUser(r)
  \/ \E r \in Slots : PrismaFindAvailableClusters(r)
  \/ \E r \in Slots : PrismaReserveCluster(r)
  \/ \E r \in Slots : PrismaFindRandomAvailableDemoUser(r)
  \/ \E r \in Slots : PrismaRollback(r)
  \/ \E r \in Slots : PrismaReserveDemoUser(r)
  \/ \E r \in Slots : PrismaUpdateUser(r)

SpecBurst == BurstInit /\ [][BurstNext]_vars

\* the Participants whose login has succeeded
LoggedIn == {u \in UserIds : workshop_users[u].lastLogin # Null}
BurstOver == started = BurstLogins /\ Quiescent

\* C12: with NumClusters unreserved Clusters, each with an unreserved
\* DemoUser, and NumClusters + 1 first-time logins of distinct emails and
\* nothing else: every login answers 200 or 503, and once all have answered
\* exactly NumClusters of them have succeeded, the Participants that
\* succeeded hold pairwise distinct Cluster/DemoUser pairs, and exactly
\* NumClusters Clusters are reserved.
C12_BurstFillsEveryCluster ==
  /\ \A r \in Slots : req[r].pc = "done" => req[r].status \in {200, 503}
  /\ BurstOver =>
       /\ Cardinality(LoggedIn) = NumClusters
       /\ \A u \in LoggedIn : Bound(u)
       /\ \A u1, u2 \in LoggedIn :
            u1 # u2 =>
              \/ workshop_users[u1].clusterId # workshop_users[u2].clusterId
              \/ workshop_users[u1].demoUserId # workshop_users[u2].demoUserId
       /\ Cardinality({c \in ClusterIds : clusters[c].isReserved}) = NumClusters


\* slot r answers a login with success in this step
LoginSucceeds(r) ==
  req[r].op = "login" /\ ~Free(r) /\ req'[r].status = 200

\* C13: when a login of a Participant succeeds, the token it returns is the
\* Participant's sessionToken, the token the Participant had before is
\* replaced, and no other token issued so far authenticates as that
\* Participant.
C13_LoginInvalidatesEarlierTokens ==
  [][\A r \in Slots :
       LoginSucceeds(r) =>
         LET u == FindUserByEmail(workshop_users', req[r].email)
             t == req'[r].body.token
         IN /\ u # NoId /\ t # NoToken
            /\ FindUserBySessionToken(workshop_users', t) = u
            /\ u \in UserIds /\ workshop_users[u].sessionToken # NoToken
                 => workshop_users'[u].sessionToken
                      # workshop_users[u].sessionToken
            /\ \A old \in 1..started' :
                 old # t => FindUserBySessionToken(workshop_users', old) # u]_vars

\* a login has succeeded after an earlier successful login of the same
\* Participant: the new token authenticates, the earlier one does not
C13_Witness ==
  \E r \in Slots :
    /\ req[r].op = "login" /\ req[r].status = 200
    /\ req[r].expect # NoBody
    /\ FindUserBySessionToken(workshop_users, req[r].body.token) # NoId
    /\ FindUserBySessionToken(workshop_users, req[r].expect.token) = NoId


\* C14: no two Participants have the same non-null sessionToken, so a token
\* resolves to at most one Participant.
C14_SessionTokenUnique ==
  \A u1, u2 \in UserIds :
    u1 # u2 /\ workshop_users[u1].sessionToken # NoToken =>
      workshop_users[u1].sessionToken # workshop_users[u2].sessionToken

\* two Participants are logged in at the same time
C14_Witness ==
  \E u1, u2 \in UserIds :
    /\ u1 # u2
    /\ workshop_users[u1].sessionToken # NoToken
    /\ workshop_users[u2].sessionToken # NoToken


\* C15: a login of an existing Participant with a password other than the
\* one the stored hash was made from answers 401 and changes no Participant,
\* Cluster or DemoUser record; no token is minted.  (sqlite: the answer comes
\* after the bcrypt await; prisma: the step that reads the row answers.)
C15_WrongPasswordChangesNothing ==
  [][\A r \in Slots :
       /\ req[r].pc = "s_compare" /\ Stepped(r)
            /\ req[r].user.passwordHash.bcrypt # req[r].password
            => /\ req'[r].status = 401
               /\ req'[r].body = NoBody
               /\ store' = store
       /\ Began(r) /\ req'[r].op = "login"
            /\ variant = "prisma"
            /\ Len(req'[r].password) >= MinPasswordLen
            /\ FindUserByEmail(workshop_users, req'[r].email) # NoId
            /\ workshop_users[FindUserByEmail(workshop_users,
                 req'[r].email)].passwordHash.bcrypt # req'[r].password
            => /\ req'[r].status = 401
               /\ req'[r].body = NoBody
               /\ store' = store]_vars

\* a login with a wrong password has been answered 401 while its Participant
\* is bound and logged in
C15_Witness ==
  \E r \in Slots :
    /\ req[r].op = "login" /\ req[r].status = 401
    /\ LET u == FindUserByEmail(workshop_users, req[r].email)
       IN /\ u # NoId
          /\ workshop_users[u].passwordHash.bcrypt # req[r].password
          /\ Bound(u)
          /\ workshop_users[u].sessionToken # NoToken


\* the request handler r takes up in this step carries a token that is no
\* Participant's current sessionToken
StaleToken(r) ==
  /\ Began(r)
  /\ req'[r].token # NoToken
  /\ \A u \in UserIds : workshop_users[u].sessionToken # req'[r].token

\* C16: get cluster, shared cluster, release and logout, called with a token
\* that is no Participant's current sessionToken (a token cleared by a logout
\* included), answer 401 and change no record.
C16_UnknownTokenRejected ==
  [][\A r \in Slots :
       StaleToken(r)
         /\ req'[r].op \in {"getCluster", "sharedCluster", "release", "logout"}
         => /\ req'[r].pc = "done"
            /\ req'[r].status = 401
            /\ req'[r].body = NoBody
            /\ store' = store
            /\ shared_clusters' = shared_clusters]_vars

\* a request has been refused with the token that the latest successful
\* login of a Participant returned and that a logout has cleared since
C16_Witness ==
  \E r \in Slots, e \in Emails :
    /\ req[r].op \in {"getCluster", "release", "logout"}
    /\ req[r].status = 401
    /\ req[r].token # NoToken
    /\ lastSuccess[e].token = req[r].token
    /\ LET u == FindUserByEmail(workshop_users, e)
       IN u # NoId /\ workshop_users[u].sessionToken = NoToken


\* the loader has been run twice on the same file
RanTwice == loader.run = 2 /\ loader.pc \in {"done", "failed"}

\* C17: after the loader has been run twice on the same data file there are
\* as many Cluster, DemoUser and SharedCluster records as after the first run,
\* and the second run has added none.
C17_SecondLoadAddsNothing ==
  RanTwice =>
    /\ <<Len(clusters), Len(demo_users), Len(shared_clusters)>> = loader.first
    /\ loader.report.user_clusters[1] = 0
    /\ loader.report.demo_users[1] = 0

\* the rows of a table before a step are its first rows after the step
Kept(table, after) ==
  /\ Len(after) >= Len(table)
  /\ \A k \in 1..Len(table) : after[k] = table[k]

\* C18: no step of the bulk loader changes or removes a record that exists:
\* every field of every existing Cluster, DemoUser, SharedCluster and
\* Participant stays as it is (url, password, isReserved, reservedBy too).
C18_LoaderKeepsExistingRecords ==
  [][/\ Kept(clusters, clusters')
     /\ Kept(demo_users, demo_users')
     /\ Kept(shared_clusters, shared_clusters')
     /\ workshop_users' = workshop_users]_vars

\* a run is over that was given, with new values, the names of a reserved
\* Cluster and of a reserved DemoUser of the store, and that has added a
\* record of each kind
C18_Witness ==
  /\ loader.pc = "done"
  /\ Len(clusters) > 1 /\ clusters[1].isReserved
  /\ Len(demo_users) > 1 /\ demo_users[1].isReserved
  /\ Len(shared_clusters) > 1
  /\ \E k \in 1..Len(loader.file.user_clusters) :
       /\ loader.file.user_clusters[k].username = "a"
       /\ loader.file.user_clusters[k].cluster_url # clusters[1].url
       /\ loader.file.user_clusters[k].cluster_url # ""
  /\ \E k \in 1..Len(loader.file.demo_users) :
       /\ loader.file.demo_users[k].username = demo_users[1].username
       /\ loader.file.demo_users[k].password \notin {"", demo_users[1].password}


\* the Clusters and the DemoUsers whose reservedBy names this Participant
ClustersReservedBy(e) == {c \in ClusterIds : clusters[c].reservedBy = e}
DemoUsersReservedBy(e) == {d \in DemoIds : demo_users[d].reservedBy = e}

\* C19: once every request has returned, at most one Cluster and at most one
\* DemoUser carry a Participant's identifier in reservedBy, whatever the
\* interleaving of the requests was (two logins of one Participant included).
C19_OneReservationPerParticipant ==
  Quiescent =>
    \A e \in Emails :
      /\ Cardinality(ClustersReservedBy(e)) <= 1
      /\ Cardinality(DemoUsersReservedBy(e)) <= 1


\* the three reservation columns of a row agree
ReservationColumnsAgree(row) ==
  /\ row.isReserved <=> row.reservedBy # Null
  /\ row.reservedBy # Null <=> row.reservedAt # Null

\* C20: in every reachable state each Cluster and each DemoUser has
\* isReserved = true exactly when reservedBy is non-null, and reservedBy is
\* non-null exactly when reservedAt is non-null.
C20_ReservationColumnsAgree ==
  /\ \A c \in ClusterIds : ReservationColumnsAgree(clusters[c])
  /\ \A d \in DemoIds : ReservationColumnsAgree(demo_users[d])

\* a release has just freed a pair while another pair is reserved
C20_Witness ==
  /\ \E r \in Slots : req[r].op = "release" /\ req[r].status = 200
  /\ \E c1, c2 \in ClusterIds :
       clusters[c1].isReserved /\ ~clusters[c2].isReserved
  /\ \E d1, d2 \in DemoIds :
       demo_users[d1].isReserved /\ ~demo_users[d2].isReserved


\* the reported figures are those of these rows
FiguresOf(fig, rows) ==
  /\ fig.total = Cardinality(DOMAIN rows)
  /\ fig.reserved = Cardinality({k \in DOMAIN rows : rows[k].isReserved = TRUE})
  /\ fig.reserved + fig.available = fig.total

\* C21: admin stats changes no record; its Cluster figures and its DemoUser
\* figures have reserved + available = total, with total and reserved the
\* number of records and of reserved records of the table when the handler
\* reads it, and the answer carries the figures as read.
C21_StatsCountTheStore ==
  [][\A r \in Slots :
       /\ Stepped(r) /\ req'[r].op = "stats" =>
            /\ store' = store
            /\ shared_clusters' = shared_clusters
       /\ Began(r) /\ req'[r].op = "stats" =>
            FiguresOf(req'[r].stats.clusters, clusters)
       /\ Stepped(r) /\ req'[r].op = "stats"
            /\ (variant = "sqlite" \/ req[r].pc = "p_getAllDemoUsers") =>
            FiguresOf(req'[r].stats.demoUsers, demo_users)
       /\ Stepped(r)
            /\ req[r].pc \in {"p_getAllDemoUsers", "p_getAllWorkshopUsers"} =>
            req'[r].stats.clusters = req[r].stats.clusters
       /\ Stepped(r) /\ req[r].pc = "p_getAllWorkshopUsers" =>
            req'[r].stats.demoUsers = req[r].stats.demoUsers
       /\ Stepped(r) /\ req'[r].op = "stats" /\ req'[r].pc = "done" =>
            /\ req'[r].status = 200
            /\ req'[r].stats.workshopUsers.total = Len(workshop_users)]_vars

\* admin stats has answered with a reserved and an available Cluster and
\* DemoUser in its figures
C21_Witness ==
  \E r \in Slots :
    /\ req[r].op = "stats" /\ req[r].status = 200
    /\ req[r].stats.clusters.reserved > 0
    /\ req[r].stats.clusters.available > 0
    /\ req[r].stats.demoUsers.reserved > 0
    /\ req[r].stats.demoUsers.available > 0


\* a single login has been made, it met a store failure, and it has returned
OneFailedLogin ==
  /\ started = 1
  /\ Quiescent
  /\ \E r \in Slots : req[r].op = "login" /\ req[r].failed

\* C22: after a login that met a store failure inside its reservation loop
\* has returned, no reservation is left that the login does not hold: with
\* no other request ever made, every reserved Cluster and every reserved
\* DemoUser is the one the Participant is bound to.
C22_FailedStepLeavesNoReservation ==
  OneFailedLogin =>
    /\ \A c \in ClusterIds :
         clusters[c].isReserved =>
           \E u \in UserIds : workshop_users[u].clusterId = c
    /\ \A d \in DemoIds :
         demo_users[d].isReserved =>
           \E u \in UserIds : workshop_users[u].demoUserId = d


\* C23: a login whose email is missing or empty, whose password is missing
\* or empty, or whose password has fewer than 4 characters answers 400 at
\* once, creates no Participant and changes no record.
C23_InvalidInputRejected ==
  [][\A r \in Slots :
       Began(r) /\ req'[r].op = "login"
         /\ (req'[r].email = "" \/ Len(req'[r].password) < 4)
         => /\ req'[r].pc = "done"
            /\ req'[r].status = 400
            /\ req'[r].body = NoBody
            /\ store' = store]_vars

\* a login with a password of 1 to 3 characters has been refused for the
\* email of a Participant that exists
C23_Witness ==
  \E r \in Slots :
    /\ req[r].op = "login" /\ req[r].status = 400
    /\ Len(req[r].password) \in 1..3
    /\ FindUserByEmail(workshop_users, req[r].email) # NoId


\* the Participant whose current sessionToken this is
Holder(token) ==
  CHOOSE u \in UserIds : workshop_users[u].sessionToken = token
Authenticates(token) ==
  token # NoToken /\ \E u \in UserIds : workshop_users[u].sessionToken = token

TokenOps == {"getCluster", "sharedCluster", "release", "logout"}
\* req.user as authenticateUser (or the logout handler) finds it
Caller(token) ==
  IF FindUserBySessionToken(workshop_users, token) = NoId THEN NoUser
  ELSE Snapshot(workshop_users, FindUserBySessionToken(workshop_users, token))
\* status and body that a token operation owes a caller with this row
Owed(op, token, user) ==
  IF op = "logout" /\ token = NoToken THEN <<400, NoBody>>
  ELSE IF user.id = NoId THEN <<401, NoBody>>
  ELSE IF op = "getCluster"
  THEN IF user.clusterId = NoId \/ user.demoUserId = NoId
       THEN <<404, NoBody>> ELSE <<200, GetClusterResponse(user)>>
  ELSE IF op = "sharedCluster"
  THEN IF user.demoUserId = NoId \/ shared_clusters = <<>>
       THEN <<404, NoBody>> ELSE <<200, SharedInfo(user.demoUserId)>>
  ELSE IF op = "release"
  THEN IF user.clusterId = NoId \/ user.demoUserId = NoId
       THEN <<404, NoBody>> ELSE <<200, NoBody>>
  ELSE <<200, NoBody>>
\* the hashes a Participant row can hold
PasswordHashes ==
  {Hash(pw) : pw \in {p \in Passwords : ~InvalidLoginInput("a@x", p)}}
    \cup {NoHash}

\* C25: the answer of a token-authenticated request (get cluster, shared
\* cluster, release, logout) does not depend on the caller's password hash:
\* status and body are what they would be with any other hash in the
\* caller's row, so no answer carries the hash or a part of it.
C25_AnswersIgnorePasswordHash ==
  [][\A r \in Slots :
       Stepped(r) /\ req'[r].pc = "done" /\ req'[r].op \in TokenOps
         /\ (Began(r) \/ ~Free(r)) =>
         LET user == IF Began(r) THEN Caller(req'[r].token) ELSE req[r].user
         IN \A h \in PasswordHashes :
              <<req'[r].status, req'[r].body>> =
                Owed(req'[r].op, req'[r].token,
                     [user EXCEPT !.passwordHash = h])]_vars

\* get cluster has answered a Participant that holds a password hash with
\* the Cluster and DemoUser of its row
C25_Witness ==
  \E r \in Slots :
    /\ req[r].op = "getCluster" /\ req[r].status = 200
    /\ Authenticates(req[r].token)
    /\ workshop_users[Holder(req[r].token)].passwordHash \in PasswordHashes
    /\ workshop_users[Holder(req[r].token)].passwordHash # NoHash
    /\ req[r].body.cluster = workshop_users[Holder(req[r].token)].clusterId
    /\ req[r].body.cluster # NoId


\* C26: a login that holds the reservation of its candidate Cluster and whose
\* reservation of the chosen DemoUser does not succeed has released that
\* Cluster when it moves to the next candidate or answers.
C26_ClusterReleasedWhenDemoUserFails ==
  [][\A r \in Slots :
       /\ req[r].pc = "p_reserveDemoUser"
       /\ \/ req'[r].idx = req[r].idx + 1
          \/ req'[r].pc = "done"
       => ~clusters'[Current(r)].isReserved]_vars


\* handler r takes this step
Acts(r) == Stepped(r) /\ (Began(r) \/ ~Free(r))
\* the identifier (email) of the Participant on whose behalf r takes it:
\* the email of a login, the holder of the token otherwise
ActsFor(r) ==
  IF Began(r)
  THEN IF req'[r].op = "login" THEN req'[r].email
       ELSE Caller(req'[r].token).email
  ELSE IF req[r].op = "login" THEN req[r].email ELSE req[r].user.email

\* C27: a step that clears the reservation of a Cluster or of a DemoUser is
\* taken for the Participant named in the record's reservedBy at that
\* moment: neither a release nor a login's rollback frees a record that is
\* reserved by a different Participant.
C27_OnlyOwnReservationCleared ==
  [][\A r \in Slots :
       Acts(r) =>
         /\ \A c \in ClusterIds :
              clusters[c].isReserved /\ ~clusters'[c].isReserved =>
                clusters[c].reservedBy = ActsFor(r)
         /\ \A d \in DemoIds :
              demo_users[d].isReserved /\ ~demo_users'[d].isReserved =>
                demo_users[d].reservedBy = ActsFor(r)]_vars


\* login r is about to attempt a candidate that another Participant has
\* reserved since r read its list
LostRace(r) ==
  /\ req[r].pc = "p_reserveCluster"
  /\ clusters[Current(r)].isReserved
  /\ clusters[Current(r)].reservedBy # req[r].email

\* C28: a login whose candidate Cluster has been won by another Participant
\* absorbs the lost race: its attempt on that candidate moves it to the next
\* candidate of its list (to the 503 of an exhausted list after the last
\* one), it does not go on with the Cluster the other Participant holds, and
\* no error other than that 503 is answered.
C28_LostRaceMovesToNextCandidate ==
  [][\A r \in Slots :
       LostRace(r) /\ Stepped(r) =>
         IF req[r].idx < Len(req[r].list)
         THEN /\ req'[r].pc = "p_reserveCluster"
              /\ req'[r].idx = req[r].idx + 1
         ELSE req'[r].pc = "done" /\ req'[r].status = 503]_vars

\* the reservation loop of the prisma login
LoopPcs ==
  {"p_reserveCluster", "p_findDemoUser2", "p_rollback", "p_reserveDemoUser",
   "p_updateUser"}
InLoop(r) == req[r].op = "login" /\ req[r].pc \in LoopPcs
NoRepeat(list) ==
  \A i, j \in 1..Len(list) : list[i] = list[j] => i = j
\* the clusters whose row a step rewrites
Rewritten == {c \in ClusterIds : clusters'[c] # clusters[c]}

\* C29: every login in progress ends with an answer. Its candidate list
\* names no Cluster twice and does not change during the traversal; the
\* login writes a reservation only to the candidate at its position; the
\* position never exceeds the length of the list and goes up by one every
\* time the login comes back to the reservation attempt, so a list of N
\* candidates gets at most N attempts. The sqlite login answers in the step
\* of its traversal and rewrites at most as many Clusters as were available.
C29_LoginTerminates ==
  /\ \A r \in Slots :
       (req[r].op = "login" /\ ~Free(r)) ~> (req[r].pc = "done")
  /\ [][\A r \in Slots :
          /\ InLoop(r) =>
               /\ NoRepeat(req[r].list)
               /\ req[r].idx \in 1..Len(req[r].list)
          /\ InLoop(r) /\ Stepped(r) =>
               /\ req[r].pc = "p_reserveCluster" =>
                    /\ Rewritten \subseteq {Current(r)}
                    /\ req'[r].pc # "p_reserveCluster"
               /\ req'[r].pc \in LoopPcs =>
                    /\ req'[r].list = req[r].list
                    /\ req'[r].idx = IF req'[r].pc = "p_reserveCluster"
                                     THEN req[r].idx + 1 ELSE req[r].idx
               /\ req'[r].pc \notin LoopPcs =>
                    req'[r].pc = "done" /\ req'[r].status \in {200, 503}
          /\ variant = "sqlite" /\ req[r].op = "login" /\ ~Free(r)
               /\ Stepped(r) =>
               /\ req'[r].pc = "done"
               /\ Cardinality(Rewritten)
                    <= Cardinality(AvailableClusters(clusters))]_vars
\* a prisma login has come to the last candidate of a list of more than one
\* and found no DemoUser for it either
C29_Witness ==
  \E r \in Slots :
    /\ variant = "prisma" /\ req[r].op = "login" /\ req[r].pc = "p_rollback"
    /\ Len(req[r].list) > 1 /\ req[r].idx = Len(req[r].list)

\* C30: a step of a login, logout or release request made on behalf of a
\* Participant leaves every record of workshop_users that belongs to a
\* different Participant exactly as it was, and adds no record for a
\* different Participant.
C30_OtherParticipantsUntouched ==
  [][\A r \in Slots :
       Acts(r) =>
         /\ Len(workshop_users') >= Len(workshop_users)
         /\ \A u \in UserIds :
              workshop_users[u].email # ActsFor(r) =>
                workshop_users'[u] = workshop_users[u]
         /\ \A u \in (1..Len(workshop_users')) \ UserIds :
              workshop_users'[u].email = ActsFor(r)]_vars
\* a release has been answered for a Participant whose record is now
\* unbound, while the record of a different Participant holds a session and
\* a binding
C30_Witness ==
  \E r \in Slots :
    /\ req[r].op = "release" /\ req[r].pc = "done" /\ req[r].status = 200
    /\ \E u, u2 \in UserIds :
         /\ workshop_users[u].sessionToken = req[r].token
         /\ ~Bound(u)
         /\ workshop_users[u2].email # workshop_users[u].email
         /\ Bound(u2)
         /\ workshop_users[u2].sessionToken # NoToken

\* the record of the Participant with this email, when it references a
\* Cluster and a DemoUser that are both marked reserved
ValidlyBound(u) ==
  /\ Bound(u)
  /\ clusters[workshop_users[u].clusterId].isReserved
  /\ demo_users[workshop_users[u].demoUserId].isReserved
SessionOnly(old, new) ==
  new = [old EXCEPT !.sessionToken = new.sessionToken,
                    !.lastLogin = new.lastLogin]

\* C31: a step of a login of a Participant whose record references a Cluster
\* and a DemoUser that are both marked reserved changes no Cluster and no
\* DemoUser record, and changes nothing of the Participant's record but
\* sessionToken and lastLogin.
C31_BoundLoginAllocatesNothing ==
  [][\A r \in Slots : \A u \in UserIds :
       /\ req[r].op = "login" /\ ~Free(r) /\ Stepped(r)
       /\ workshop_users[u].email = req[r].email
       /\ ValidlyBound(u)
       => /\ clusters' = clusters
          /\ demo_users' = demo_users
          /\ SessionOnly(workshop_users[u], workshop_users'[u])]_vars

\* the positions of the prisma login at which the reservation of its current
\* candidate has been applied; at p_updateUser the one of its DemoUser too
ClusterAppliedPcs == {"p_findDemoUser2", "p_rollback", "p_reserveDemoUser",
                      "p_updateUser"}
\* the caller has gone away from a login that holds a reservation
AbandonedHolding(r) ==
  /\ req[r].abandoned /\ req[r].op = "login"
  /\ req[r].pc \in ClusterAppliedPcs
\* the login in slot r has done with its current candidate
LetsGo(r) ==
  \/ req'[r].pc \notin ClusterAppliedPcs
  \/ req'[r].idx # req[r].idx
References(e, c, d) ==
  \E u \in 1..Len(workshop_users') :
    /\ workshop_users'[u].email = e
    /\ workshop_users'[u].clusterId = c
    /\ d # NoId => workshop_users'[u].demoUserId = d

C33_ReportedCountsAddUp ==
  /\ loader.pc \in {"demo_users", "done"} =>
       /\ loader.report.user_clusters[1] + loader.report.user_clusters[2]
            = Len(loader.file.user_clusters)
       /\ loader.report.user_clusters[1] = Len(clusters) - loader.before[1]
  /\ loader.pc = "done" =>
       /\ loader.report.demo_users[1] + loader.report.demo_users[2]
            = Len(loader.file.demo_users)
       /\ loader.report.demo_users[1] = Len(demo_users) - loader.before[2]
\* a run has ended that added one cluster and skipped one, and added one
\* demo user and skipped one
C33_Witness ==
  /\ loader.pc = "done"
  /\ loader.report.user_clusters = <<1, 1>>
  /\ loader.report.demo_users = <<1, 1>>

\* a first-time login about to insert a row for an email that has got a row
\* since the login looked it up
LosesInsert(r) ==
  /\ req[r].op = "login"
  /\ req[r].pc \in {"s_hash", "p_create"}
  /\ FindUserByEmail(workshop_users, req[r].email) # NoId

\* C34: no step leaves two Participant records with the same email, and the
\* login that loses the insert of a new email to a concurrent one is
\* answered with an error (500) in that step and changes no record: it
\* reserves no Cluster and no DemoUser.
C34_OneRecordPerEmail ==
  [][/\ \A u1, u2 \in 1..Len(workshop_users') :
          workshop_users'[u1].email = workshop_users'[u2].email => u1 = u2
     /\ \A r \in Slots :
          LosesInsert(r) /\ Stepped(r) =>
            /\ req'[r].pc = "done" /\ req'[r].status = 500
            /\ store' = store]_vars
\* a login of an email has been answered 500 and the email has its record,
\* with a binding
C34_Witness ==
  \E r \in Slots : \E u \in UserIds :
    /\ req[r].op = "login" /\ req[r].pc = "done" /\ req[r].status = 500
    /\ workshop_users[u].email = req[r].email
    /\ Bound(u)

\* no operator command is in progress
OperatorIdle == loader.pc \in {"idle", "done", "failed"}
\* the Cluster and the DemoUser the record references are reserved by the
\* record's own Participant
HoldsOwn(u) ==
  /\ clusters[workshop_users[u].clusterId].reservedBy = workshop_users[u].email
  /\ demo_users[workshop_users[u].demoUserId].reservedBy
       = workshop_users[u].email

\* C35: when the only operator command run is release <cluster_id> and
\* neither a request nor the command is in progress, every Participant with
\* a binding references a Cluster and a DemoUser whose reservedBy is the
\* Participant's own identifier.
C35_BindingHoldsOwnResources ==
  /\ loader.cmd \in {"none", "release"}
  /\ Quiescent /\ OperatorIdle
  => \A u \in UserIds : Bound(u) => HoldsOwn(u)

\* C36: in the server with a pool of demo users per cluster (sqlite), the
\* DemoUser a Participant with a binding references belongs to the pool of
\* the Cluster the Participant references.
C36_DemoUserOfOwnCluster ==
  variant = "sqlite" =>
    \A u \in UserIds :
      Bound(u) =>
        demo_users[workshop_users[u].demoUserId].cluster_id
          = workshop_users[u].clusterId
\* two Participants are bound, each to a different Cluster and to the
\* DemoUser of its pool
C36_Witness ==
  /\ variant = "sqlite"
  /\ \E u1, u2 \in UserIds :
       /\ Bound(u1) /\ Bound(u2)
       /\ workshop_users[u1].clusterId # workshop_users[u2].clusterId
       /\ workshop_users[u1].demoUserId # workshop_users[u2].demoUserId

\* the login in slot r is answered 200 in this step
LoginAnswered200(r) ==
  /\ req[r].op = "login" /\ req[r].pc # "done"
  /\ req'[r].pc = "done" /\ req'[r].status = 200
\* another login of the same Participant is in progress (a logout takes one
\* step of the sqlite server and the prisma server has none)
ConcurrentLogin(r) ==
  \E r2 \in Slots \ {r} :
    ~Free(r2) /\ req[r2].op = "login" /\ req[r2].email = req[r].email

\* C37: in the state in which a login of a Participant is answered 200, and
\* no other login of the Participant is in progress, the token of the
\* answer is the sessionToken of the Participant's record, the token lookup
\* of authenticateUser resolves it to that record and no other record
\* holds it.
C37_ReturnedTokenIsStored ==
  [][\A r \in Slots :
       LoginAnswered200(r) /\ ~ConcurrentLogin(r) =>
         LET t == req'[r].body.token
             u == FindUserByEmail(workshop_users', req[r].email)
         IN /\ t # NoToken
            /\ u # NoId
            /\ workshop_users'[u].sessionToken = t
            /\ FindUserBySessionToken(workshop_users', t) = u
            /\ \A u2 \in 1..Len(workshop_users') :
                 workshop_users'[u2].sessionToken = t => u2 = u]_vars
\* the second Participant has been answered 200 while the first holds a
\* session
C37_Witness ==
  \E r \in Slots :
    /\ req[r].op = "login" /\ req[r].pc = "done" /\ req[r].status = 200
    /\ Len(workshop_users) = 2
    /\ workshop_users[2].email = req[r].email
    /\ workshop_users[2].sessionToken = req[r].body.token
    /\ workshop_users[1].sessionToken # NoToken

\* no request has been in flight since the operator command began
NoRequestSince ==
  loader.quiet /\ loader.startedAt = started /\ Quiescent
\* a step of the release command of db-manage-prisma.js
ReleaseCommandStep ==
  /\ variant = "prisma"
  /\ loader' # loader
  /\ loader'.cmd = "release"
\* the records of the Participants that reference the cluster
BoundTo(wu, c) == {u \in 1..Len(wu) : wu[u].clusterId = c}

\* C38: with no request in flight, every step of release <cluster_id>
\* leaves alone every Cluster but the one named, every DemoUser but the one
\* of a Participant bound to that Cluster, every other Participant and the
\* sessionToken of all; on the id of no cluster the command fails and
\* changes nothing; and when it has ended the Cluster is unreserved, no
\* Participant references it any more, and the DemoUser of each
\* Participant that did is unreserved.
C38_OperatorReleaseFrees ==
  [][ReleaseCommandStep /\ NoRequestSince' =>
       LET c == loader'.arg
           P == BoundTo(workshop_users, c)
       IN /\ c \notin DOMAIN clusters =>
               loader'.pc = "failed" /\ store' = store
          /\ \A c2 \in DOMAIN clusters : c2 # c => clusters'[c2] = clusters[c2]
          /\ \A d \in DOMAIN demo_users :
               (\A u \in P : workshop_users[u].demoUserId # d) =>
                 demo_users'[d] = demo_users[d]
          /\ Len(workshop_users') = Len(workshop_users)
          /\ \A u \in UserIds :
               IF u \in P
               THEN workshop_users'[u] = workshop_users[u]
                      \/ workshop_users'[u] = Unbound(workshop_users[u])
               ELSE workshop_users'[u] = workshop_users[u]
          /\ loader'.pc = "done" =>
               /\ ~clusters'[c].isReserved
               /\ clusters'[c].reservedBy = Null
               /\ BoundTo(workshop_users', c) = {}
               /\ \A u \in P :
                    ~demo_users'[workshop_users[u].demoUserId].isReserved]_vars

\* every reservation is referenced by a Participant, and every reference
\* of a Participant is to a reserved Cluster or DemoUser
ReservationsMatchBindings ==
  /\ \A c \in DOMAIN clusters :
       clusters[c].isReserved => BoundTo(workshop_users, c) # {}
  /\ \A d \in DOMAIN demo_users :
       demo_users[d].isReserved =>
         \E u \in UserIds : workshop_users[u].demoUserId = d
  /\ \A u \in UserIds :
       /\ workshop_users[u].clusterId # NoId =>
            /\ workshop_users[u].clusterId \in DOMAIN clusters
            /\ clusters[workshop_users[u].clusterId].isReserved
       /\ workshop_users[u].demoUserId # NoId =>
            /\ workshop_users[u].demoUserId \in DOMAIN demo_users
            /\ demo_users[workshop_users[u].demoUserId].isReserved

\* C39: when release-all or reset-users has completed and no request has
\* been in flight since it began, a Cluster or DemoUser is reserved only if
\* a Participant references it, and every Cluster or DemoUser a
\* Participant references is reserved.
C39_NothingLeftReserved ==
  /\ loader.cmd \in {"release-all", "reset-users"}
  /\ loader.pc = "done"
  /\ NoRequestSince
  => ReservationsMatchBindings

====
